---- MODULE Spec2Model ----
(***************************************************************************)
(* A model of the compression utilities of medgfx (utils/compression.ts):  *)
(* the ZipReader (constructor scan and extract), compress, decompress and  *)
(* isArrayBufferCompressed.                                                *)
(*                                                                         *)
(* Bytes are the integers 0..255 and a buffer is a sequence of bytes; the  *)
(* byte at the 0-based offset o of the source is buffer[o + 1].            *)
(*                                                                         *)
(* A JavaScript number that comes from 32 or 64 bits of the buffer does    *)
(* not fit the integers of TLC, so it is kept as a pair <<hi, lo>>         *)
(* that stands for hi * 2^24 + lo, with 0 <= lo < 2^24.  The pair is exact *)
(* for every value below 2^55, which covers the 32-bit fields and every    *)
(* 64-bit field that Number() converts without rounding.                   *)
(***************************************************************************)
EXTENDS Integers, Sequences, FiniteSets, TLC

\* ------------------------------------------------------------------------
\* Bounds of the model

\* the largest number of items of the menus of local file records that a
\* generated archive is made of
MaxLocals == 2
\* the largest number of bytes removed from the end of a generated archive
MaxCut == 3
\* the number of extract calls that can be in flight on the reader
MaxCalls == 2
\* the number of decompress calls that can be in flight
MaxDecompressCalls == 1
\* the number of isArrayBufferCompressed calls of a behaviour
MaxProbes == 2

\* ------------------------------------------------------------------------
\* Numbers

B24 == 4096 * 4096

Num(n) == <<n \div B24, n % B24>>

NumAdd(a, b) == <<a[1] + b[1] + ((a[2] + b[2]) \div B24), (a[2] + b[2]) % B24>>

NumLT(a, b) == a[1] < b[1] \/ (a[1] = b[1] /\ a[2] < b[2])

NumLE(a, b) == a = b \/ NumLT(a, b)

\* the literal 0xb3b2b1b0
Hex32(b3, b2, b1, b0) == <<b3, (b2 * 65536) + (b1 * 256) + b0>>

\* ------------------------------------------------------------------------
\* Sequences of bytes

Take(s, n) == SubSeq(s, 1, n)

LE16(n) == <<n % 256, n \div 256>>

LE32(n) == <<n % 256, (n \div 256) % 256, (n \div 65536) % 256, n \div B24>>

LE64(n) == LE32(n) \o <<0, 0, 0, 0>>

\* ------------------------------------------------------------------------
\* Generated archives: the buffers handed to the constructor

FF4 == <<255, 255, 255, 255>>

\* "a.txt" and "hi"
NameA == <<97, 46, 116, 120, 116>>
PayloadHi == <<104, 105>>

\* raw deflate streams: one stored block holding "hi", one stored block
\* holding nothing, the fixed-Huffman coding of "hi", a block of the
\* reserved type 3
DeflateStoredHi == <<1, 2, 0, 253, 255, 104, 105>>
DeflateStoredEmpty == <<1, 0, 0, 255, 255>>
DeflateHuffmanHi == <<203, 200, 4, 0>>
DeflateReserved == <<7>>

LocalHeaderBytes(flags, method, csz, usz, name, extra) ==
    <<80, 75, 3, 4>> \o <<20, 0>> \o LE16(flags) \o LE16(method)
        \o <<0, 0, 0, 0>> \o <<0, 0, 0, 0>> \o csz \o usz
        \o LE16(Len(name)) \o LE16(Len(extra)) \o name \o extra

DescriptorBytes(csz, usz) == <<80, 75, 7, 8>> \o <<0, 0, 0, 0>> \o csz \o usz

\* a data descriptor written without its signature
BareDescriptorBytes(csz, usz) == <<0, 0, 0, 0>> \o csz \o usz

CentralBytes(name, nameLen, commentLen) ==
    <<80, 75, 1, 2>> \o <<20, 0, 20, 0>> \o [i \in 1..20 |-> 0]
        \o LE16(nameLen) \o <<0, 0>> \o LE16(commentLen) \o [i \in 1..12 |-> 0] \o name

EocdBytes(comment) == <<80, 75, 5, 6>> \o [i \in 1..16 |-> 0] \o LE16(Len(comment)) \o comment

Eocd64Bytes == <<80, 75, 6, 6>> \o [i \in 1..52 |-> 0]

\* an extra field: a record of another tag, and the ZIP64 record
ExtraOther == <<85, 84>> \o LE16(1) \o <<3>>
ExtraZip64(flen, usz, csz) == <<1, 0>> \o LE16(flen) \o usz \o csz

\* the per-entry ceiling of extract, as a plain integer
CeilingBytes == 500 * 1024 * 1024

\* a local file record: header, payload and what trails the payload
Local(flags, method, csz, usz, extra, payload, trailer) ==
    LocalHeaderBytes(flags, method, csz, usz, NameA, extra) \o payload \o trailer

LocalMenu == {
    Local(0, 0, LE32(2), LE32(2), <<>>, PayloadHi, <<>>),
    Local(0, 0, LE32(2), LE32(3), <<>>, PayloadHi, <<>>),
    Local(0, 0, LE32(2), LE32(CeilingBytes + 1), <<>>, PayloadHi, <<>>),
    Local(0, 0, LE32(2), LE32(CeilingBytes), <<>>, PayloadHi, <<>>),
    Local(0, 8, LE32(7), LE32(2), <<>>, DeflateStoredHi, <<>>),
    Local(0, 8, LE32(7), LE32(3), <<>>, DeflateStoredHi, <<>>),
    Local(0, 8, LE32(7), LE32(CeilingBytes + 1), <<>>, DeflateStoredHi, <<>>),
    Local(0, 8, LE32(4), LE32(2), <<>>, DeflateHuffmanHi, <<>>),
    Local(0, 8, LE32(1), LE32(2), <<>>, DeflateReserved, <<>>),
    Local(0, 8, LE32(5), LE32(0), <<>>, DeflateStoredEmpty, <<>>),
    Local(0, 9, LE32(2), LE32(2), <<>>, PayloadHi, <<>>),
    Local(0, 9, LE32(2), LE32(CeilingBytes + 1), <<>>, PayloadHi, <<>>),
    Local(0, 8, FF4, FF4, ExtraZip64(16, LE64(2), LE64(7)), DeflateStoredHi, <<>>),
    Local(0, 0, FF4, FF4, ExtraOther \o ExtraZip64(16, LE64(2), LE64(2)), PayloadHi, <<>>),
    Local(0, 0, FF4, FF4, ExtraOther, PayloadHi, <<>>),
    Local(0, 0, FF4, FF4, <<>>, PayloadHi, <<>>),
    Local(0, 0, FF4, FF4, ExtraZip64(8, LE64(2), <<>>), PayloadHi, <<>>),
    Local(0, 0, FF4, LE32(2), ExtraZip64(16, LE64(2), LE64(2)), PayloadHi, <<>>),
    Local(8, 0, LE32(0), LE32(0), <<>>, PayloadHi, DescriptorBytes(LE32(2), LE32(2))),
    Local(8, 0, LE32(0), LE32(0), <<>>, <<80, 75, 7, 8, 104, 105>>, DescriptorBytes(LE32(6), LE32(6))),
    Local(8, 0, LE32(2), LE32(2), <<>>, PayloadHi, DescriptorBytes(LE32(2), LE32(2))),
    Local(8, 0, LE32(0), LE32(0), <<>>, PayloadHi, DescriptorBytes(LE32(5), LE32(5))),
    Local(8, 0, LE32(0), LE32(0), <<>>, PayloadHi, <<>>),
    Local(8, 0, LE32(0), LE32(0), <<>>, PayloadHi, BareDescriptorBytes(LE32(2), LE32(2))),
    Local(0, 8, LE32(7), LE32(2), <<>>, DeflateStoredHi, <<>>)
        \o Local(0, 8, LE32(5), LE32(2), <<>>, DeflateStoredEmpty, <<>>),
    Local(8, 0, FF4, FF4, ExtraZip64(16, LE64(0), LE64(0)), PayloadHi,
          DescriptorBytes(LE32(2), LE32(2))),
    Local(8, 0, LE32(2), LE32(2), <<>>, PayloadHi, DescriptorBytes(LE32(2), LE32(2)))
        \o Local(0, 0, LE32(2), LE32(2), <<>>, PayloadHi, <<>>)
}

\* the records that may precede the last local file record of an archive
PrefixMenu == {
    Local(0, 0, LE32(2), LE32(2), <<>>, PayloadHi, <<>>),
    Local(8, 0, LE32(0), LE32(0), <<>>, PayloadHi, DescriptorBytes(LE32(2), LE32(2)))
}

\* what follows the local file records
TailMenu == {
    <<>>,
    EocdBytes(<<>>),
    EocdBytes(<<99>>),
    CentralBytes(NameA, 5, 0),
    CentralBytes(NameA, 3, 2) \o EocdBytes(<<>>),
    Eocd64Bytes,
    Eocd64Bytes \o Local(0, 0, LE32(2), LE32(2), <<>>, PayloadHi, <<>>),
    <<80, 75, 9, 9>>,
    <<80, 75, 9, 9>> \o Local(0, 0, LE32(2), LE32(2), <<>>, PayloadHi, <<>>),
    EocdBytes(<<>>) \o Local(0, 0, LE32(2), LE32(2), <<>>, PayloadHi, <<>>)
}

RECURSIVE Prefixes(_)
Prefixes(n) == IF n = 0 THEN {<<>>}
               ELSE Prefixes(n - 1) \cup
                    {p \o l : p \in Prefixes(n - 1), l \in PrefixMenu}

LocalRuns == {<<>>} \cup
             IF MaxLocals = 0 THEN {}
             ELSE {p \o l : p \in Prefixes(MaxLocals - 1), l \in LocalMenu}

Archives == {r \o t : r \in LocalRuns, t \in TailMenu}

Buffers == {Take(a, Len(a) - c) : a \in Archives, c \in 0..MaxCut}

\* ------------------------------------------------------------------------
\* The state of one ZipReader and of the extract calls made on it

VARIABLES
    buffer,                 \* the bytes of #dataView.buffer
    index,                  \* #index, a number
    localFiles,             \* #localFiles
    centralDirectories,     \* #centralDirectories
    endOfCentralDirectory,  \* #endOfCentralDirectory, or Undefined
    phase,                  \* "read", "constructed" or "threw"
    error,                  \* what the constructor threw
    console,                \* the offsets reported with console.error
    calls,                  \* the extract calls, by call slot
    dcalls,                 \* the decompress calls, by call slot
    ccalls,                 \* the compress calls, by call slot
    probes,                 \* the isArrayBufferCompressed calls made
    writes,                 \* what callers wrote to the buffers extract returned
    second                  \* a second ZipReader: its buffer, fields and one call

vars == <<buffer, index, localFiles, centralDirectories, endOfCentralDirectory,
          phase, error, console, calls, dcalls, ccalls, probes, writes, second>>

Undefined == [undefined |-> TRUE]

byteLength == Len(buffer)

\* DataView throws a RangeError unless the n bytes at offset o lie in the buffer
InBounds(o, n) == o + n <= byteLength

getUint8(o) == buffer[o + 1]

getUint16(o) == buffer[o + 1] + (256 * buffer[o + 2])

getUint32(o) == <<buffer[o + 4], buffer[o + 1] + (256 * buffer[o + 2]) + (65536 * buffer[o + 3])>>

\* Number(getBigUint64(o, true))
getBigUint64(o) ==
    <<buffer[o + 4] + (256 * buffer[o + 5]) + (65536 * buffer[o + 6])
          + (B24 * (buffer[o + 7] + (256 * buffer[o + 8]))),
      buffer[o + 1] + (256 * buffer[o + 2]) + (65536 * buffer[o + 3])>>

\* the character codes of the string
readString(offset, length) == [i \in 1..length |-> getUint8(offset + i - 1)]

LocalFileSignature == Hex32(4, 3, 75, 80)
CentralDirectorySignature == Hex32(2, 1, 75, 80)
EndOfCentralDirectorySignature == Hex32(6, 5, 75, 80)
EndOfCentralDirectory64Signature == Hex32(6, 6, 75, 80)
DataDescriptorSignature == Hex32(8, 7, 75, 80)
Placeholder32 == Hex32(255, 255, 255, 255)

\* Zip64Scan with the two 64-bit sizes read in the other order
RECURSIVE Zip64ScanSwapped(_, _)
Zip64ScanSwapped(zip64Offset, limit) ==
    IF ~(zip64Offset < limit - 4)
    THEN [status |-> "Missing"]
    ELSE LET fieldSignature == getUint16(zip64Offset)
             fieldLength == getUint16(zip64Offset + 2)
         IN IF fieldSignature = 1
            THEN IF fieldLength >= 16
                 THEN IF InBounds(zip64Offset + 4, 16)
                      THEN [status |-> "ok",
                            uncompressedSize |-> getBigUint64(zip64Offset + 12),
                            compressedSize |-> getBigUint64(zip64Offset + 4)]
                      ELSE [status |-> "RangeError"]
                 ELSE [status |-> "TooSmall"]
            ELSE Zip64ScanSwapped(zip64Offset + 4 + fieldLength, limit)

\* the loop of readLocalFile over the records of the extra field
RECURSIVE Zip64Scan(_, _)
Zip64Scan(zip64Offset, limit) ==
    IF ~(zip64Offset < limit - 4)
    THEN [status |-> "Missing"]
    ELSE LET fieldSignature == getUint16(zip64Offset)
             fieldLength == getUint16(zip64Offset + 2)
         IN IF fieldSignature = 1
            THEN IF fieldLength >= 16
                 THEN IF InBounds(zip64Offset + 4, 16)
                      THEN [status |-> "ok",
                            uncompressedSize |-> getBigUint64(zip64Offset + 4),
                            compressedSize |-> getBigUint64(zip64Offset + 12)]
                      ELSE [status |-> "RangeError"]
                 ELSE [status |-> "TooSmall"]
            ELSE Zip64Scan(zip64Offset + 4 + fieldLength, limit)

readLocalFile(offset) ==
    IF ~InBounds(offset, 30)
    THEN [status |-> "RangeError"]
    ELSE LET compressedSize == getUint32(offset + 18)
             uncompressedSize == getUint32(offset + 22)
             fileNameLength == getUint16(offset + 26)
             extraLength == getUint16(offset + 28)
             extraOffset == offset + 30 + fileNameLength
             zip64 == IF compressedSize = Placeholder32 /\ uncompressedSize = Placeholder32
                      THEN Zip64Scan(extraOffset, extraOffset + extraLength)
                      ELSE [status |-> "ok",
                            uncompressedSize |-> uncompressedSize,
                            compressedSize |-> compressedSize]
         IN IF ~InBounds(extraOffset, extraLength)
            THEN [status |-> "RangeError"]
            ELSE IF zip64.status # "ok"
            THEN [status |-> zip64.status]
            ELSE [status |-> "ok",
                  entry |-> [signature |-> readString(offset, 4),
                             version |-> getUint16(offset + 4),
                             generalPurpose |-> getUint16(offset + 6),
                             compressionMethod |-> getUint16(offset + 8),
                             lastModifiedTime |-> getUint16(offset + 10),
                             lastModifiedDate |-> getUint16(offset + 12),
                             crc |-> getUint32(offset + 14),
                             compressedSize |-> zip64.compressedSize,
                             uncompressedSize |-> zip64.uncompressedSize,
                             fileNameLength |-> fileNameLength,
                             extraLength |-> extraLength,
                             fileName |-> readString(offset + 30, fileNameLength),
                             extra |-> readString(offset + 30 + fileNameLength, extraLength)]]

readCentralDirectory(offset) ==
    IF ~InBounds(offset, 46)
    THEN [status |-> "RangeError"]
    ELSE IF ~InBounds(offset + 46, getUint16(offset + 32))
    THEN [status |-> "RangeError"]
    ELSE [status |-> "ok",
          entry |-> [versionCreated |-> getUint16(offset + 4),
                     versionNeeded |-> getUint16(offset + 6),
                     fileNameLength |-> getUint16(offset + 28),
                     extraLength |-> getUint16(offset + 30),
                     fileCommentLength |-> getUint16(offset + 32),
                     diskNumber |-> getUint16(offset + 34),
                     internalAttributes |-> getUint16(offset + 36),
                     externalAttributes |-> getUint32(offset + 38),
                     offset |-> getUint32(offset + 42),
                     comments |-> readString(offset + 46, getUint16(offset + 32))]]

\* readEndCentralDirectory with the comment length read as a 32-bit field
readEndCentralDirectoryWide(offset) ==
    IF ~InBounds(offset + 20, 4)
    THEN [status |-> "RangeError"]
    ELSE LET commentLength == getUint16(offset + 20)
         IN IF ~InBounds(offset + 22, commentLength)
            THEN [status |-> "RangeError"]
            ELSE [status |-> "ok",
                  entry |-> [numberOfDisks |-> Num(getUint16(offset + 4)),
                             centralDirectoryStartDisk |-> Num(getUint16(offset + 6)),
                             numberCentralDirectoryRecordsOnThisDisk |-> Num(getUint16(offset + 8)),
                             numberCentralDirectoryRecords |-> Num(getUint16(offset + 10)),
                             centralDirectorySize |-> getUint32(offset + 12),
                             centralDirectoryOffset |-> getUint32(offset + 16),
                             commentLength |-> Num(commentLength),
                             comment |-> readString(offset + 22, commentLength)]]

readEndCentralDirectory(offset) ==
    IF ~InBounds(offset + 20, 2)
    THEN [status |-> "RangeError"]
    ELSE LET commentLength == getUint16(offset + 20)
         IN IF ~InBounds(offset + 22, commentLength)
            THEN [status |-> "RangeError"]
            ELSE [status |-> "ok",
                  entry |-> [numberOfDisks |-> Num(getUint16(offset + 4)),
                             centralDirectoryStartDisk |-> Num(getUint16(offset + 6)),
                             numberCentralDirectoryRecordsOnThisDisk |-> Num(getUint16(offset + 8)),
                             numberCentralDirectoryRecords |-> Num(getUint16(offset + 10)),
                             centralDirectorySize |-> getUint32(offset + 12),
                             centralDirectoryOffset |-> getUint32(offset + 16),
                             commentLength |-> Num(commentLength),
                             comment |-> readString(offset + 22, commentLength)]]

readEndCentralDirectory64(offset) ==
    IF ~InBounds(offset, 56)
    THEN [status |-> "RangeError"]
    ELSE [status |-> "ok",
          entry |-> [numberOfDisks |-> getUint32(offset + 16),
                     centralDirectoryStartDisk |-> getUint32(offset + 20),
                     numberCentralDirectoryRecordsOnThisDisk |-> getBigUint64(offset + 24),
                     numberCentralDirectoryRecords |-> getBigUint64(offset + 32),
                     centralDirectorySize |-> getBigUint64(offset + 40),
                     centralDirectoryOffset |-> getBigUint64(offset + 48),
                     commentLength |-> getBigUint64(offset + 0),
                     comment |-> <<>>]]

\* ------------------------------------------------------------------------
\* The constructor: read()

IdleCall ==
    [pc |-> "idle", entry |-> 0, sliced |-> FALSE, streamOpened |-> FALSE,
     buffer |-> <<>>, result |-> <<>>, error |-> "none"]

\* an argument of decompress: null, or a Uint8Array of the given bytes
Null == [null |-> TRUE, bytes |-> <<>>]
Bytes(b) == [null |-> FALSE, bytes |-> b]

IdleDecompress ==
    [pc |-> "idle", data |-> Bytes(<<>>), format |-> "none", streams |-> 0,
     resultLength |-> Num(0), result |-> <<>>, zeros |-> Num(0), error |-> "none"]

IdleCompress ==
    [pc |-> "idle", data |-> <<>>, format |-> "none", result |-> <<>>]

\* no second reader has been constructed
NoReader == [buffer |-> <<>>, fields |-> [phase |-> "none"], call |-> IdleCall]

\* A behaviour either constructs a ZipReader over a generated buffer and
\* then extracts from it, or (phase "absent") constructs no reader and calls
\* compress, decompress and isArrayBufferCompressed, which read their
\* arguments only.
Init ==
    /\ \/ buffer \in Buffers /\ phase = "read"
       \/ buffer = <<>> /\ phase = "absent"
    /\ index = Num(0)
    /\ localFiles = <<>>
    /\ centralDirectories = <<>>
    /\ endOfCentralDirectory = Undefined
    /\ error = "none"
    /\ console = <<>>
    /\ calls = [c \in 1..MaxCalls |-> IdleCall]
    /\ dcalls = [c \in 1..MaxDecompressCalls |-> IdleDecompress]
    /\ ccalls = [c \in 1..MaxDecompressCalls |-> IdleCompress]
    /\ probes = <<>>
    /\ writes = [c \in 1..MaxCalls |-> <<>>]
    /\ second = NoReader

\* the condition of the while loop
LoopRuns ==
    /\ phase = "read"
    /\ endOfCentralDirectory = Undefined
    /\ NumLT(index, Num(byteLength))

\* #index as an offset, when it lies in the buffer
Cursor == index[2]

SignatureIs(sig) == LoopRuns /\ InBounds(Cursor, 4) /\ getUint32(Cursor) = sig

Throw(what) ==
    /\ phase' = "threw"
    /\ error' = what

\* the loop condition is false: read() and the constructor return
ReadReturns ==
    /\ phase = "read"
    /\ ~LoopRuns
    /\ phase' = "constructed"
    /\ UNCHANGED <<buffer, index, localFiles, centralDirectories,
                   endOfCentralDirectory, error, console, calls, dcalls, ccalls, probes, writes, second>>

\* getUint32(#index) with fewer than 4 bytes left
ReadSignatureThrows ==
    /\ LoopRuns
    /\ ~InBounds(Cursor, 4)
    /\ Throw("RangeError")
    /\ UNCHANGED <<buffer, index, localFiles, centralDirectories,
                   endOfCentralDirectory, console, calls, dcalls, ccalls, probes, writes, second>>

hasDataDescriptor(entry) == (entry.generalPurpose \div 8) % 2 = 1

\* startsAtOf that leaves the extra field out
startsAtOfNameOnly(offset, entry) == offset + 30 + entry.fileNameLength

startsAtOf(offset, entry) == offset + 30 + entry.fileNameLength + entry.extraLength

\* ScanDescriptor that takes the first signature, without the "PK" test
RECURSIVE ScanDescriptorFirstSignature(_)
ScanDescriptorFirstSignature(scanIndex) ==
    IF scanIndex + 20 <= byteLength
    THEN IF getUint32(scanIndex) = DataDescriptorSignature
         THEN scanIndex + 4
         ELSE ScanDescriptorFirstSignature(scanIndex + 1)
    ELSE scanIndex

\* the value of scanIndex after the scan loop
RECURSIVE ScanDescriptor(_)
ScanDescriptor(scanIndex) ==
    IF scanIndex + 20 <= byteLength
    THEN IF /\ getUint32(scanIndex) = DataDescriptorSignature
            /\ getUint16(scanIndex + 16) = (75 * 256) + 80
         THEN scanIndex + 4
         ELSE ScanDescriptor(scanIndex + 1)
    ELSE scanIndex

ReadLocalFileThrows ==
    /\ SignatureIs(LocalFileSignature)
    /\ readLocalFile(Cursor).status # "ok"
    /\ Throw(readLocalFile(Cursor).status)
    /\ UNCHANGED <<buffer, index, localFiles, centralDirectories,
                   endOfCentralDirectory, console, calls, dcalls, ccalls, probes, writes, second>>

\* ReadLocalFile that moves the cursor by the size of the payload only
ReadLocalFileBySize ==
    /\ SignatureIs(LocalFileSignature)
    /\ readLocalFile(Cursor).status = "ok"
    /\ LET read == readLocalFile(Cursor).entry
           entry == read @@ [startsAt |-> startsAtOf(Cursor, read)]
       IN /\ ~(entry.compressedSize = Num(0) /\ hasDataDescriptor(entry))
          /\ localFiles' = Append(localFiles, entry)
          /\ index' = NumAdd(index, entry.compressedSize)
    /\ UNCHANGED <<buffer, centralDirectories, endOfCentralDirectory, phase,
                   error, console, calls, dcalls, ccalls, probes, writes, second>>

\* a local file whose sizes are known once the header is read
ReadLocalFile ==
    /\ SignatureIs(LocalFileSignature)
    /\ readLocalFile(Cursor).status = "ok"
    /\ LET read == readLocalFile(Cursor).entry
           entry == read @@ [startsAt |-> startsAtOf(Cursor, read)]
       IN /\ ~(entry.compressedSize = Num(0) /\ hasDataDescriptor(entry))
          /\ localFiles' = Append(localFiles, entry)
          /\ index' = NumAdd(Num(entry.startsAt), entry.compressedSize)
    /\ UNCHANGED <<buffer, centralDirectories, endOfCentralDirectory, phase,
                   error, console, calls, dcalls, ccalls, probes, writes, second>>

\* a local file whose sizes are deferred to a data descriptor
ReadLocalFileDeferred ==
    /\ SignatureIs(LocalFileSignature)
    /\ readLocalFile(Cursor).status = "ok"
    /\ LET read == readLocalFile(Cursor).entry
           entry == read @@ [startsAt |-> startsAtOf(Cursor, read)]
           scanIndex == ScanDescriptor(entry.startsAt)
           filled == [entry EXCEPT
                        !.crc = IF InBounds(scanIndex, 4)
                                THEN getUint32(scanIndex) ELSE @,
                        !.compressedSize = IF InBounds(scanIndex + 4, 4)
                                           THEN getUint32(scanIndex + 4) ELSE @,
                        !.uncompressedSize = IF InBounds(scanIndex + 8, 4)
                                             THEN getUint32(scanIndex + 8) ELSE @]
       IN /\ entry.compressedSize = Num(0) /\ hasDataDescriptor(entry)
          /\ localFiles' = Append(localFiles, filled)
          /\ IF InBounds(scanIndex + 8, 4)
             THEN /\ index' = Num(scanIndex + 12)
                  /\ UNCHANGED <<phase, error>>
             ELSE /\ Throw("RangeError")
                  /\ UNCHANGED index
    /\ UNCHANGED <<buffer, centralDirectories, endOfCentralDirectory, console, calls,
                   dcalls, ccalls, probes, writes, second>>

ReadCentralDirectory ==
    /\ SignatureIs(CentralDirectorySignature)
    /\ LET read == readCentralDirectory(Cursor)
       IN IF read.status = "ok"
          THEN /\ centralDirectories' = Append(centralDirectories, read.entry)
               /\ index' = NumAdd(index, Num(46 + read.entry.fileNameLength
                                   + read.entry.extraLength + read.entry.fileCommentLength))
               /\ UNCHANGED <<phase, error>>
          ELSE /\ Throw(read.status)
               /\ UNCHANGED <<centralDirectories, index>>
    /\ UNCHANGED <<buffer, localFiles, endOfCentralDirectory, console, calls,
                   dcalls, ccalls, probes, writes, second>>

\* ReadEndCentralDirectory that keeps the record and goes on behind it
ReadEndCentralDirectoryGoesOn ==
    /\ SignatureIs(EndOfCentralDirectorySignature)
    /\ LET read == readEndCentralDirectory(Cursor)
       IN IF read.status = "ok"
          THEN /\ endOfCentralDirectory' = read.entry
               /\ index' = NumAdd(index, NumAdd(Num(22), read.entry.commentLength))
               /\ UNCHANGED <<phase, error>>
          ELSE /\ Throw(read.status)
               /\ UNCHANGED <<endOfCentralDirectory, index>>
    /\ UNCHANGED <<buffer, localFiles, centralDirectories, console, calls,
                   dcalls, ccalls, probes, writes, second>>

ReadEndCentralDirectory ==
    /\ SignatureIs(EndOfCentralDirectorySignature)
    /\ LET read == readEndCentralDirectory(Cursor)
       IN IF read.status = "ok"
          THEN /\ endOfCentralDirectory' = read.entry
               /\ phase' = "constructed"
               /\ UNCHANGED error
          ELSE /\ Throw(read.status)
               /\ UNCHANGED endOfCentralDirectory
    /\ UNCHANGED <<buffer, index, localFiles, centralDirectories, console, calls,
                   dcalls, ccalls, probes, writes, second>>

ReadEndCentralDirectory64 ==
    /\ SignatureIs(EndOfCentralDirectory64Signature)
    /\ LET read == readEndCentralDirectory64(Cursor)
       IN IF read.status = "ok"
          THEN /\ endOfCentralDirectory' = read.entry
               /\ phase' = "constructed"
               /\ UNCHANGED error
          ELSE /\ Throw(read.status)
               /\ UNCHANGED endOfCentralDirectory
    /\ UNCHANGED <<buffer, index, localFiles, centralDirectories, console, calls,
                   dcalls, ccalls, probes, writes, second>>

\* ReadUnexpectedSignature that reports the signature and looks for the next
\* record one byte further on
ReadUnexpectedSignatureResync ==
    /\ LoopRuns
    /\ InBounds(Cursor, 4)
    /\ getUint32(Cursor) \notin {LocalFileSignature, CentralDirectorySignature,
                                 EndOfCentralDirectorySignature,
                                 EndOfCentralDirectory64Signature}
    /\ console' = Append(console, Cursor)
    /\ index' = NumAdd(index, Num(1))
    /\ UNCHANGED <<buffer, phase, localFiles, centralDirectories,
                   endOfCentralDirectory, error, calls, dcalls, ccalls, probes, writes, second>>

\* ReadUnexpectedSignature that steps over a data descriptor at the cursor
ReadUnexpectedSignatureOverDescriptor ==
    /\ LoopRuns
    /\ InBounds(Cursor, 4)
    /\ getUint32(Cursor) \notin {LocalFileSignature, CentralDirectorySignature,
                                 EndOfCentralDirectorySignature,
                                 EndOfCentralDirectory64Signature}
    /\ IF getUint32(Cursor) = DataDescriptorSignature
       THEN /\ index' = NumAdd(index, Num(16))
            /\ UNCHANGED <<console, phase>>
       ELSE /\ console' = Append(console, Cursor)
            /\ phase' = "constructed"
            /\ UNCHANGED index
    /\ UNCHANGED <<buffer, localFiles, centralDirectories,
                   endOfCentralDirectory, error, calls, dcalls, ccalls, probes, writes, second>>

\* any other signature: console.error and break
ReadUnexpectedSignature ==
    /\ LoopRuns
    /\ InBounds(Cursor, 4)
    /\ getUint32(Cursor) \notin {LocalFileSignature, CentralDirectorySignature,
                                 EndOfCentralDirectorySignature,
                                 EndOfCentralDirectory64Signature}
    /\ console' = Append(console, Cursor)
    /\ phase' = "constructed"
    /\ UNCHANGED <<buffer, index, localFiles, centralDirectories,
                   endOfCentralDirectory, error, calls, dcalls, ccalls, probes, writes, second>>

Read ==
    \/ ReadReturns
    \/ ReadSignatureThrows
    \/ ReadLocalFileThrows
    \/ ReadLocalFile
    \/ ReadLocalFileDeferred
    \/ ReadCentralDirectory
    \/ ReadEndCentralDirectory
    \/ ReadEndCentralDirectory64
    \/ ReadUnexpectedSignature

\* ------------------------------------------------------------------------
\* DecompressionStream('deflate-raw') over one whole buffer

\* The blocks of a raw deflate stream from position pos on.  Stored blocks
\* are decoded; a block of the reserved type, a stored block whose length
\* check fails, a stream that ends before its final block and bytes after
\* the final block are errors; a Huffman-coded block is not decoded (see
\* UnmodelledOutcomes).  next is the position after the final block.
RECURSIVE InflateBlocks(_, _, _)
InflateBlocks(data, pos, out) ==
    IF pos > Len(data)
    THEN [status |-> "error"]
    ELSE LET bfinal == data[pos] % 2
             btype == (data[pos] \div 2) % 4
         IN IF btype = 3
            THEN [status |-> "error"]
            ELSE IF btype # 0
            THEN [status |-> "unmodelled"]
            ELSE IF pos + 4 > Len(data)
            THEN [status |-> "error"]
            ELSE LET len == data[pos + 1] + (256 * data[pos + 2])
                     nlen == data[pos + 3] + (256 * data[pos + 4])
                     last == pos + 4 + len
                 IN IF len + nlen # 65535 \/ last > Len(data)
                    THEN [status |-> "error"]
                    ELSE IF bfinal = 0
                    THEN InflateBlocks(data, last + 1, out \o SubSeq(data, pos + 5, last))
                    ELSE [status |-> "ok", out |-> out \o SubSeq(data, pos + 5, last),
                          next |-> last + 1]

\* The output of a decoder is the bytes out followed by zeros more bytes of
\* value 0: an output too long to be written down as a sequence (a run of
\* zeros deflates to a few bytes) is kept by its length.
ByteLength(bytes, zeros) == NumAdd(Num(Len(bytes)), zeros)

\* 2 * 1024 * 1024 * 1024 - 1 and 2 * 1024 * 1024 * 1024
LongRuns == {<<127, B24 - 1>>, <<128, 0>>}

\* what a stream that is not decoded here may yield: an error, some bytes,
\* or one byte and a long run of zeros
UnmodelledOutcomes ==
    {[status |-> "error"]} \cup
    {[status |-> "ok", out |-> o, zeros |-> Num(0)] :
         o \in {<<>>, <<104>>, <<104, 105>>, <<104, 105, 33>>}} \cup
    {[status |-> "ok", out |-> <<104>>, zeros |-> z] : z \in LongRuns}

\* the stream must end with its trailer: bytes after it are an error
Framed(data, r, trailer) ==
    IF r.status # "ok"
    THEN {r}
    ELSE IF SubSeq(data, r.next, Len(data)) = trailer
    THEN {[status |-> "ok", out |-> r.out, zeros |-> Num(0)]}
    ELSE {[status |-> "error"]}

\* CRC-32 (polynomial 0xEDB88320) over 32 bits kept least significant first
CrcPoly == <<0, 0, 0, 0, 0, 1, 0, 0, 1, 1, 0, 0, 0, 0, 0, 1,
             0, 0, 0, 1, 1, 1, 0, 1, 1, 0, 1, 1, 0, 1, 1, 1>>

\* the bits of a and b from position i on, added modulo 2
RECURSIVE XorFrom(_, _, _)
XorFrom(a, b, i) ==
    IF i > Len(a) THEN <<>> ELSE <<(a[i] + b[i]) % 2>> \o XorFrom(a, b, i + 1)

XorBits(a, b) == XorFrom(a, b, 1)

CrcShift(crc) ==
    LET shifted == Tail(crc) \o <<0>>
    IN IF crc[1] = 1 THEN XorBits(shifted, CrcPoly) ELSE shifted

Zeros24 == <<0, 0, 0, 0, 0, 0, 0, 0, 0, 0, 0, 0, 0, 0, 0, 0, 0, 0, 0, 0, 0, 0, 0, 0>>

ByteBits(b) ==
    <<b % 2, (b \div 2) % 2, (b \div 4) % 2, (b \div 8) % 2, (b \div 16) % 2,
      (b \div 32) % 2, (b \div 64) % 2, (b \div 128) % 2>> \o Zeros24

CrcByte(crc, b) ==
    CrcShift(CrcShift(CrcShift(CrcShift(CrcShift(CrcShift(CrcShift(CrcShift(
        XorBits(crc, ByteBits(b))))))))))

\* the register after the bytes of data from position i on; the test of its
\* width has the register computed before the next byte is folded in
RECURSIVE CrcFold(_, _, _)
CrcFold(data, i, crc) ==
    IF i > Len(data) \/ Len(crc) # 32
    THEN crc
    ELSE CrcFold(data, i + 1, CrcByte(crc, data[i]))

\* the register before the first byte: 0xFFFFFFFF
Ones32 == <<1, 1, 1, 1, 1, 1, 1, 1, 1, 1, 1, 1, 1, 1, 1, 1,
            1, 1, 1, 1, 1, 1, 1, 1, 1, 1, 1, 1, 1, 1, 1, 1>>

\* the CRC-32 of data, as the 4 bytes of a little-endian field
Crc32(data) ==
    LET crc == CrcFold(data, 1, Ones32)
        bit(i) == 1 - crc[i]
        byte(k) == bit(8 * k + 1) + 2 * bit(8 * k + 2) + 4 * bit(8 * k + 3)
                   + 8 * bit(8 * k + 4) + 16 * bit(8 * k + 5) + 32 * bit(8 * k + 6)
                   + 64 * bit(8 * k + 7) + 128 * bit(8 * k + 8)
    IN <<byte(0), byte(1), byte(2), byte(3)>>

RECURSIVE AdlerFold(_, _, _, _)
AdlerFold(data, i, a, b) ==
    IF i > Len(data) THEN <<a, b>>
    ELSE AdlerFold(data, i + 1, (a + data[i]) % 65521, (b + a + data[i]) % 65521)

\* the Adler-32 of data, as the 4 bytes of a big-endian field
Adler32(data) ==
    LET ab == AdlerFold(data, 1, 1, 0)
    IN <<ab[2] \div 256, ab[2] % 256, ab[1] \div 256, ab[1] % 256>>

\* new DecompressionStream(format), fed data and closed: the ways it can end
DecodeOutcomes(format, data) ==
    IF format = "deflate-raw"
    THEN LET r == InflateBlocks(data, 1, <<>>)
         IN IF r.status = "unmodelled" THEN UnmodelledOutcomes
            ELSE Framed(data, r, <<>>)
    ELSE  IF format = "deflate"
       THEN IF Len(data) < 2
            THEN {[status |-> "error"]}
            ELSE IF \/ data[1] % 16 # 8
                    \/ data[1] \div 16 > 7
                    \/ ((256 * data[1]) + data[2]) % 31 # 0
                    \/ (data[2] \div 32) % 2 = 1
            THEN {[status |-> "error"]}
            ELSE LET r == InflateBlocks(data, 3, <<>>)
                 IN IF r.status = "unmodelled" THEN UnmodelledOutcomes
                    ELSE Framed(data, r, IF r.status = "ok" THEN Adler32(r.out) ELSE <<>>)
       ELSE IF Len(data) < 10
            THEN {[status |-> "error"]}
            ELSE IF SubSeq(data, 1, 3) # <<31, 139, 8>>
            THEN {[status |-> "error"]}
            ELSE IF data[4] # 0
            THEN UnmodelledOutcomes
            ELSE LET r == InflateBlocks(data, 11, <<>>)
                 IN IF r.status = "unmodelled" THEN UnmodelledOutcomes
                    ELSE Framed(data, r, IF r.status = "ok"
                                         THEN Crc32(r.out) \o LE32(Len(r.out))
                                         ELSE <<>>)

InflateOutcomes(data) == DecodeOutcomes("deflate-raw", data)

\* ------------------------------------------------------------------------
\* extract(entry)

MAX_INDIVIDUAL_ENTRY_SIZE == Num(500 * 1024 * 1024)

\* Slice with the window taken one byte early
SliceOneEarly(begin, end) ==
    LET first == IF begin < byteLength THEN begin ELSE byteLength
        final == IF NumLT(end, Num(byteLength)) THEN end[2] ELSE byteLength
    IN IF final > first THEN SubSeq(buffer, first, final - 1) ELSE <<>>

\* ArrayBuffer.prototype.slice(begin, end): both ends are clamped to the buffer
Slice(begin, end) ==
    LET first == IF begin < byteLength THEN begin ELSE byteLength
        final == IF NumLT(end, Num(byteLength)) THEN end[2] ELSE byteLength
    IN IF final > first THEN SubSeq(buffer, first + 1, final) ELSE <<>>

\* the bytes a caller stores in a buffer it was given
WrittenBytes == {0}

Call(pc, e, sliced, opened, buf, result, err) ==
    [pc |-> pc, entry |-> e, sliced |-> sliced, streamOpened |-> opened,
     buffer |-> buf, result |-> result, error |-> err]

\* ExtractBegin with the size ceiling tested after the slice is taken
ExtractBeginSliceFirst(entry, e) ==
    LET buf == Slice(entry.startsAt, NumAdd(Num(entry.startsAt), entry.compressedSize))
    IN IF NumLT(MAX_INDIVIDUAL_ENTRY_SIZE, entry.uncompressedSize)
       THEN Call("threw", e, TRUE, FALSE, buf, <<>>, "SizeLimit")
       ELSE IF entry.compressionMethod = 0
       THEN IF Num(Len(buf)) # entry.uncompressedSize
            THEN Call("threw", e, TRUE, FALSE, buf, <<>>, "SizeMismatch")
            ELSE Call("returned", e, TRUE, FALSE, buf, buf, "none")
       ELSE IF entry.compressionMethod = 8
       THEN Call("write", e, TRUE, TRUE, buf, <<>>, "none")
       ELSE Call("threw", e, TRUE, FALSE, buf, <<>>, "Unsupported")

\* ExtractBegin with every method but deflate handled as stored
ExtractBeginStoredByDefault(entry, e) ==
    IF NumLT(MAX_INDIVIDUAL_ENTRY_SIZE, entry.uncompressedSize)
    THEN Call("threw", e, FALSE, FALSE, <<>>, <<>>, "SizeLimit")
    ELSE LET buf == Slice(entry.startsAt, NumAdd(Num(entry.startsAt), entry.compressedSize))
         IN IF entry.compressionMethod = 8
            THEN Call("write", e, TRUE, TRUE, buf, <<>>, "none")
            ELSE IF Num(Len(buf)) # entry.uncompressedSize
            THEN Call("threw", e, TRUE, FALSE, buf, <<>>, "SizeMismatch")
            ELSE Call("returned", e, TRUE, FALSE, buf, buf, "none")

\* the call up to its first await, or to its end when it does not await
ExtractBegin(entry, e) ==
    IF NumLT(MAX_INDIVIDUAL_ENTRY_SIZE, entry.uncompressedSize)
    THEN Call("threw", e, FALSE, FALSE, <<>>, <<>>, "SizeLimit")
    ELSE LET buf == Slice(entry.startsAt, NumAdd(Num(entry.startsAt), entry.compressedSize))
         IN IF entry.compressionMethod = 0
            THEN IF Num(Len(buf)) # entry.uncompressedSize
                 THEN Call("threw", e, TRUE, FALSE, buf, <<>>, "SizeMismatch")
                 ELSE Call("returned", e, TRUE, FALSE, buf, buf, "none")
            ELSE IF entry.compressionMethod = 8
            THEN Call("write", e, TRUE, TRUE, buf, <<>>, "none")
            ELSE Call("threw", e, TRUE, FALSE, buf, <<>>, "Unsupported")

\* ExtractEnd without the comparison of the decoded length
ExtractEndUnchecked(entry, call, result) ==
    [call EXCEPT !.pc = "returned", !.result = result.out]

\* the call after response.arrayBuffer() has delivered the decoder's output
ExtractEnd(entry, call, result) ==
    IF ByteLength(result.out, result.zeros) # entry.uncompressedSize
    THEN [call EXCEPT !.pc = "threw", !.error = "SizeMismatch"]
    ELSE [call EXCEPT !.pc = "returned", !.result = result.out]

\* entry.extract is this.extract.bind(this, entry): the bound argument is the
\* entry object of #localFiles, with the fields that object has at the call
BoundEntry(e) == localFiles[e]

\* the calls in the odd slots are made as entry.extract(), those in the even
\* slots as reader.extract(entry)
ViaEntry(c) == c % 2 = 1

\* the entry that call c on entry e is given
Argument(c, e) == IF ViaEntry(c) THEN BoundEntry(e) ELSE localFiles[e]

\* Calls take the slots in the order in which they are made, before a second
\* reader is constructed.
Extract(c, e) ==
    /\ phase = "constructed"
    /\ second = NoReader
    /\ calls[c].pc = "idle"
    /\ \A d \in 1..(c - 1) : calls[d].pc # "idle"
    /\ calls' = [calls EXCEPT ![c] = ExtractBegin(Argument(c, e), e)]
    /\ UNCHANGED <<buffer, index, localFiles, centralDirectories,
                   endOfCentralDirectory, phase, error, console, dcalls, ccalls, probes, writes, second>>

\* ExtractAwait with the slice kept in a field of the reader, where every
\* extract call puts its own: the stream is fed the slice of the call made last
ExtractAwaitSharedBuffer(c, from, to) ==
    /\ calls[c].pc = from
    /\ LET last == CHOOSE d \in 1..MaxCalls :
                       /\ calls[d].pc # "idle"
                       /\ \A e \in (d + 1)..MaxCalls : calls[e].pc = "idle"
       IN \E o \in InflateOutcomes(calls[last].buffer) :
             calls' = [calls EXCEPT ![c] =
                         IF o.status = "error"
                         THEN [@ EXCEPT !.pc = "threw", !.error = "TypeError"]
                         ELSE IF to = "done"
                         THEN ExtractEnd(localFiles[@.entry], @, o)
                         ELSE [@ EXCEPT !.pc = to]]
    /\ UNCHANGED <<buffer, index, localFiles, centralDirectories,
                   endOfCentralDirectory, phase, error, console, dcalls, ccalls, probes, writes, second>>

\* one of the awaits of the deflate branch completes: the stream either
\* rejects, or the call goes on to its next await
ExtractAwait(c, from, to) ==
    /\ calls[c].pc = from
    /\ \E o \in InflateOutcomes(calls[c].buffer) :
          calls' = [calls EXCEPT ![c] =
                      IF o.status = "error"
                      THEN [@ EXCEPT !.pc = "threw", !.error = "TypeError"]
                      ELSE IF to = "done"
                      THEN ExtractEnd(Argument(c, @.entry), @, o)
                      ELSE [@ EXCEPT !.pc = to]]
    /\ UNCHANGED <<buffer, index, localFiles, centralDirectories,
                   endOfCentralDirectory, phase, error, console, dcalls, ccalls, probes, writes, second>>

\* ResultBacking for an extract that returns a view of the reader's buffer
\* for a stored entry
ResultBackingView(call) ==
    IF localFiles[call.entry].compressionMethod = 0 THEN "reader" ELSE "own"

\* the ArrayBuffer under the Uint8Array a call returned: the copy made by
\* slice (stored) or the one response.arrayBuffer() delivered (deflate)
ResultBacking(call) == "own"

\* the caller stores a byte at offset 0 of the Uint8Array that call c returned;
\* a Uint8Array writes through to its ArrayBuffer.  The write is made when no
\* call is in flight and one call is left to be made after it.
CallerWrites(c, byte) ==
    /\ phase = "constructed"
    /\ second = NoReader
    /\ calls[c].pc = "returned"
    /\ calls[c].result # <<>>
    /\ c + 1 = MaxCalls
    /\ \A d \in 1..MaxCalls : calls[d].pc \in {"idle", "returned", "threw"}
    /\ calls[MaxCalls].pc = "idle"
    /\ writes[c] = <<>>
    /\ writes' = [writes EXCEPT ![c] = <<[at |-> 0, byte |-> byte]>>]
    /\ IF ResultBacking(calls[c]) = "reader"
       THEN buffer' = [buffer EXCEPT ![localFiles[calls[c].entry].startsAt + 1] = byte]
       ELSE UNCHANGED buffer
    /\ UNCHANGED <<index, localFiles, centralDirectories, endOfCentralDirectory,
                   phase, error, console, calls, dcalls, ccalls, probes, second>>

ExtractWritten(c) == ExtractAwait(c, "write", "close")

ExtractClosed(c) == ExtractAwait(c, "close", "arrayBuffer")

ExtractRead(c) == ExtractAwait(c, "arrayBuffer", "done")

\* ------------------------------------------------------------------------
\* A second ZipReader.  The constructor is synchronous, so the construction
\* of another instance is one step of the program; it is modelled by the
\* same reads over the instance's own buffer b and record of fields r.

InBoundsOf(b, o, n) == o + n <= Len(b)

getUint16Of(b, o) == b[o + 1] + (256 * b[o + 2])

getUint32Of(b, o) == <<b[o + 4], b[o + 1] + (256 * b[o + 2]) + (65536 * b[o + 3])>>

getBigUint64Of(b, o) ==
    <<b[o + 4] + (256 * b[o + 5]) + (65536 * b[o + 6])
          + (B24 * (b[o + 7] + (256 * b[o + 8]))),
      b[o + 1] + (256 * b[o + 2]) + (65536 * b[o + 3])>>

readStringOf(b, offset, length) == [i \in 1..length |-> b[offset + i]]

RECURSIVE Zip64ScanOf(_, _, _)
Zip64ScanOf(b, zip64Offset, limit) ==
    IF ~(zip64Offset < limit - 4)
    THEN [status |-> "Missing"]
    ELSE LET fieldSignature == getUint16Of(b, zip64Offset)
             fieldLength == getUint16Of(b, zip64Offset + 2)
         IN IF fieldSignature = 1
            THEN IF fieldLength >= 16
                 THEN IF InBoundsOf(b, zip64Offset + 4, 16)
                      THEN [status |-> "ok",
                            uncompressedSize |-> getBigUint64Of(b, zip64Offset + 4),
                            compressedSize |-> getBigUint64Of(b, zip64Offset + 12)]
                      ELSE [status |-> "RangeError"]
                 ELSE [status |-> "TooSmall"]
            ELSE Zip64ScanOf(b, zip64Offset + 4 + fieldLength, limit)

readLocalFileOf(b, offset) ==
    IF ~InBoundsOf(b, offset, 30)
    THEN [status |-> "RangeError"]
    ELSE LET compressedSize == getUint32Of(b, offset + 18)
             uncompressedSize == getUint32Of(b, offset + 22)
             fileNameLength == getUint16Of(b, offset + 26)
             extraLength == getUint16Of(b, offset + 28)
             extraOffset == offset + 30 + fileNameLength
             zip64 == IF compressedSize = Placeholder32 /\ uncompressedSize = Placeholder32
                      THEN Zip64ScanOf(b, extraOffset, extraOffset + extraLength)
                      ELSE [status |-> "ok",
                            uncompressedSize |-> uncompressedSize,
                            compressedSize |-> compressedSize]
         IN IF ~InBoundsOf(b, extraOffset, extraLength)
            THEN [status |-> "RangeError"]
            ELSE IF zip64.status # "ok"
            THEN [status |-> zip64.status]
            ELSE [status |-> "ok",
                  entry |-> [signature |-> readStringOf(b, offset, 4),
                             version |-> getUint16Of(b, offset + 4),
                             generalPurpose |-> getUint16Of(b, offset + 6),
                             compressionMethod |-> getUint16Of(b, offset + 8),
                             lastModifiedTime |-> getUint16Of(b, offset + 10),
                             lastModifiedDate |-> getUint16Of(b, offset + 12),
                             crc |-> getUint32Of(b, offset + 14),
                             compressedSize |-> zip64.compressedSize,
                             uncompressedSize |-> zip64.uncompressedSize,
                             fileNameLength |-> fileNameLength,
                             extraLength |-> extraLength,
                             fileName |-> readStringOf(b, offset + 30, fileNameLength),
                             extra |-> readStringOf(b, offset + 30 + fileNameLength,
                                                    extraLength)]]

readCentralDirectoryOf(b, offset) ==
    IF ~InBoundsOf(b, offset, 46)
    THEN [status |-> "RangeError"]
    ELSE IF ~InBoundsOf(b, offset + 46, getUint16Of(b, offset + 32))
    THEN [status |-> "RangeError"]
    ELSE [status |-> "ok",
          entry |-> [versionCreated |-> getUint16Of(b, offset + 4),
                     versionNeeded |-> getUint16Of(b, offset + 6),
                     fileNameLength |-> getUint16Of(b, offset + 28),
                     extraLength |-> getUint16Of(b, offset + 30),
                     fileCommentLength |-> getUint16Of(b, offset + 32),
                     diskNumber |-> getUint16Of(b, offset + 34),
                     internalAttributes |-> getUint16Of(b, offset + 36),
                     externalAttributes |-> getUint32Of(b, offset + 38),
                     offset |-> getUint32Of(b, offset + 42),
                     comments |-> readStringOf(b, offset + 46,
                                               getUint16Of(b, offset + 32))]]

readEndCentralDirectoryOf(b, offset) ==
    IF ~InBoundsOf(b, offset + 20, 2)
    THEN [status |-> "RangeError"]
    ELSE LET commentLength == getUint16Of(b, offset + 20)
         IN IF ~InBoundsOf(b, offset + 22, commentLength)
            THEN [status |-> "RangeError"]
            ELSE [status |-> "ok",
                  entry |-> [numberOfDisks |-> Num(getUint16Of(b, offset + 4)),
                             centralDirectoryStartDisk |-> Num(getUint16Of(b, offset + 6)),
                             numberCentralDirectoryRecordsOnThisDisk |->
                                 Num(getUint16Of(b, offset + 8)),
                             numberCentralDirectoryRecords |->
                                 Num(getUint16Of(b, offset + 10)),
                             centralDirectorySize |-> getUint32Of(b, offset + 12),
                             centralDirectoryOffset |-> getUint32Of(b, offset + 16),
                             commentLength |-> Num(commentLength),
                             comment |-> readStringOf(b, offset + 22, commentLength)]]

readEndCentralDirectory64Of(b, offset) ==
    IF ~InBoundsOf(b, offset, 56)
    THEN [status |-> "RangeError"]
    ELSE [status |-> "ok",
          entry |-> [numberOfDisks |-> getUint32Of(b, offset + 16),
                     centralDirectoryStartDisk |-> getUint32Of(b, offset + 20),
                     numberCentralDirectoryRecordsOnThisDisk |->
                         getBigUint64Of(b, offset + 24),
                     numberCentralDirectoryRecords |-> getBigUint64Of(b, offset + 32),
                     centralDirectorySize |-> getBigUint64Of(b, offset + 40),
                     centralDirectoryOffset |-> getBigUint64Of(b, offset + 48),
                     commentLength |-> getBigUint64Of(b, offset + 0),
                     comment |-> <<>>]]

RECURSIVE ScanDescriptorOf(_, _)
ScanDescriptorOf(b, scanIndex) ==
    IF scanIndex + 20 <= Len(b)
    THEN IF /\ getUint32Of(b, scanIndex) = DataDescriptorSignature
            /\ getUint16Of(b, scanIndex + 16) = (75 * 256) + 80
         THEN scanIndex + 4
         ELSE ScanDescriptorOf(b, scanIndex + 1)
    ELSE scanIndex

\* the fields of an instance, as their initializers leave them, with the
\* cursor shared by all instances
InstanceFieldsStaticIndex ==
    [index |-> index, localFiles |-> <<>>, centralDirectories |-> <<>>,
     endOfCentralDirectory |-> Undefined, phase |-> "read", error |-> "none",
     console |-> <<>>]

\* the fields of an instance, as their initializers leave them
InstanceFields ==
    [index |-> Num(0), localFiles |-> <<>>, centralDirectories |-> <<>>,
     endOfCentralDirectory |-> Undefined, phase |-> "read", error |-> "none",
     console |-> <<>>]

ThrowOf(r, what) == [r EXCEPT !.phase = "threw", !.error = what]

\* the local file branch of the loop: the fields after it
ReadLocalFileOf(b, r) ==
    LET at == r.index[2]
        read == readLocalFileOf(b, at)
        entry == read.entry @@ [startsAt |-> startsAtOf(at, read.entry)]
        scanIndex == ScanDescriptorOf(b, entry.startsAt)
        filled == [entry EXCEPT
                     !.crc = IF InBoundsOf(b, scanIndex, 4)
                             THEN getUint32Of(b, scanIndex) ELSE @,
                     !.compressedSize = IF InBoundsOf(b, scanIndex + 4, 4)
                                        THEN getUint32Of(b, scanIndex + 4) ELSE @,
                     !.uncompressedSize = IF InBoundsOf(b, scanIndex + 8, 4)
                                          THEN getUint32Of(b, scanIndex + 8) ELSE @]
    IN IF read.status # "ok"
       THEN ThrowOf(r, read.status)
       ELSE IF entry.compressedSize = Num(0) /\ hasDataDescriptor(entry)
       THEN IF InBoundsOf(b, scanIndex + 8, 4)
            THEN [r EXCEPT !.localFiles = Append(@, filled),
                           !.index = Num(scanIndex + 12)]
            ELSE ThrowOf([r EXCEPT !.localFiles = Append(@, filled)], "RangeError")
       ELSE [r EXCEPT !.localFiles = Append(@, entry),
                      !.index = NumAdd(Num(entry.startsAt), entry.compressedSize)]

\* read() over b from the fields r on: the fields when the constructor ends
RECURSIVE ReadOf(_, _)
ReadOf(b, r) ==
    IF r.phase # "read"
    THEN r
    ELSE IF ~(r.endOfCentralDirectory = Undefined /\ NumLT(r.index, Num(Len(b))))
    THEN [r EXCEPT !.phase = "constructed"]
    ELSE IF ~InBoundsOf(b, r.index[2], 4)
    THEN ThrowOf(r, "RangeError")
    ELSE LET at == r.index[2]
             signature == getUint32Of(b, at)
         IN IF signature = LocalFileSignature
            THEN ReadOf(b, ReadLocalFileOf(b, r))
            ELSE IF signature = CentralDirectorySignature
            THEN LET read == readCentralDirectoryOf(b, at)
                 IN IF read.status = "ok"
                    THEN ReadOf(b, [r EXCEPT
                            !.centralDirectories = Append(@, read.entry),
                            !.index = NumAdd(@, Num(46 + read.entry.fileNameLength
                                                + read.entry.extraLength
                                                + read.entry.fileCommentLength))])
                    ELSE ThrowOf(r, read.status)
            ELSE IF signature = EndOfCentralDirectorySignature
            THEN LET read == readEndCentralDirectoryOf(b, at)
                 IN IF read.status = "ok"
                    THEN [r EXCEPT !.endOfCentralDirectory = read.entry,
                                   !.phase = "constructed"]
                    ELSE ThrowOf(r, read.status)
            ELSE IF signature = EndOfCentralDirectory64Signature
            THEN LET read == readEndCentralDirectory64Of(b, at)
                 IN IF read.status = "ok"
                    THEN [r EXCEPT !.endOfCentralDirectory = read.entry,
                                   !.phase = "constructed"]
                    ELSE ThrowOf(r, read.status)
            ELSE [r EXCEPT !.console = Append(@, at), !.phase = "constructed"]

\* entriesOf that lists as many entries as the end-of-central-directory
\* record declares
entriesOfDeclared(fields) ==
    IF fields.endOfCentralDirectory = Undefined
    THEN fields.localFiles
    ELSE LET n == fields.endOfCentralDirectory.numberCentralDirectoryRecords[2]
         IN Take(fields.localFiles, IF n < Len(fields.localFiles)
                                    THEN n ELSE Len(fields.localFiles))

\* get entries() of the reader with these fields
entriesOf(fields) == fields.localFiles

\* the offset of the central directory record that the scan of the first
\* reader passed last, when the cursor was left behind it; -1 otherwise
LastCentralOffset ==
    IF centralDirectories = <<>>
    THEN -1
    ELSE LET last == centralDirectories[Len(centralDirectories)]
             c == Cursor - (46 + last.fileNameLength + last.extraLength
                                + last.fileCommentLength)
         IN IF c >= 0 /\ InBounds(c, 46) /\ getUint32(c) = CentralDirectorySignature
            THEN c ELSE -1

\* the bytes of b with those from offset o on replaced
Patched(b, o, bytes) ==
    [i \in 1..Len(b) |-> IF i > o /\ i <= o + Len(bytes) THEN bytes[i - o] ELSE b[i]]

\* the buffer of the first reader with other values in fields of its central
\* directory record (versions, attributes, offset of the local header) and
\* of its end-of-central-directory record (the two entry counts)
DirectoryVariant ==
    LET c == LastCentralOffset
        central == IF c >= 0
                   THEN Patched(Patched(buffer, c + 4, <<45, 0, 45, 0>>),
                                c + 34, <<1, 0, 1, 0, 1, 0, 0, 0, 9, 0, 0, 0>>)
                   ELSE buffer
    IN IF /\ endOfCentralDirectory # Undefined
          /\ getUint32(Cursor) = EndOfCentralDirectorySignature
       THEN Patched(central, Cursor + 8, <<7, 0, 7, 0>>)
       ELSE central

\* the buffers the second reader is constructed over
SecondBuffers == {buffer, DirectoryVariant}

\* new ZipReader(b), after the first reader and at most one call on it
ConstructSecond(b) ==
    /\ phase = "constructed"
    /\ second = NoReader
    /\ \A c \in 1..MaxCalls : calls[c].pc \in {"idle", "returned", "threw"}
    /\ \A c \in 2..MaxCalls : calls[c].pc = "idle"
    /\ \A c \in 1..MaxCalls : writes[c] = <<>>
    /\ second' = [buffer |-> b, fields |-> ReadOf(b, InstanceFields), call |-> IdleCall]
    /\ UNCHANGED <<buffer, index, localFiles, centralDirectories,
                   endOfCentralDirectory, phase, error, console, calls, dcalls,
                   ccalls, probes, writes>>

SliceOf(b, begin, end) ==
    LET first == IF begin < Len(b) THEN begin ELSE Len(b)
        final == IF NumLT(end, Num(Len(b))) THEN end[2] ELSE Len(b)
    IN IF final > first THEN SubSeq(b, first + 1, final) ELSE <<>>

ExtractBeginOf(b, entry, e) ==
    IF NumLT(MAX_INDIVIDUAL_ENTRY_SIZE, entry.uncompressedSize)
    THEN Call("threw", e, FALSE, FALSE, <<>>, <<>>, "SizeLimit")
    ELSE LET buf == SliceOf(b, entry.startsAt,
                            NumAdd(Num(entry.startsAt), entry.compressedSize))
         IN IF entry.compressionMethod = 0
            THEN IF Num(Len(buf)) # entry.uncompressedSize
                 THEN Call("threw", e, TRUE, FALSE, buf, <<>>, "SizeMismatch")
                 ELSE Call("returned", e, TRUE, FALSE, buf, buf, "none")
            ELSE IF entry.compressionMethod = 8
            THEN Call("write", e, TRUE, TRUE, buf, <<>>, "none")
            ELSE Call("threw", e, TRUE, FALSE, buf, <<>>, "Unsupported")

\* extract on the second reader, of the entry extracted from the first
\* reader if there was a call on it
SecondExtract(e) ==
    /\ second.fields.phase = "constructed"
    /\ second.call.pc = "idle"
    /\ e \in 1..Len(entriesOf(second.fields))
    /\ calls[1].pc = "idle" \/ calls[1].entry = e
    /\ second' = [second EXCEPT
                     !.call = ExtractBeginOf(second.buffer, entriesOf(second.fields)[e], e)]
    /\ UNCHANGED <<buffer, index, localFiles, centralDirectories,
                   endOfCentralDirectory, phase, error, console, calls, dcalls,
                   ccalls, probes, writes>>

SecondExtractAwait(from, to) ==
    /\ second.call.pc = from
    /\ \E o \in InflateOutcomes(second.call.buffer) :
          second' = [second EXCEPT !.call =
                        IF o.status = "error"
                        THEN [@ EXCEPT !.pc = "threw", !.error = "TypeError"]
                        ELSE IF to = "done"
                        THEN ExtractEnd(entriesOf(second.fields)[@.entry], @, o)
                        ELSE [@ EXCEPT !.pc = to]]
    /\ UNCHANGED <<buffer, index, localFiles, centralDirectories,
                   endOfCentralDirectory, phase, error, console, calls, dcalls,
                   ccalls, probes, writes>>

SecondExtractWritten == SecondExtractAwait("write", "close")

SecondExtractClosed == SecondExtractAwait("close", "arrayBuffer")

SecondExtractRead == SecondExtractAwait("arrayBuffer", "done")

\* ------------------------------------------------------------------------
\* compress(data, format) and decompress(data)

\* 2 * 1024 * 1024 * 1024, which is 128 * 2^24
MAX_DECOMPRESSED_SIZE == <<2 * 64, 0>>

\* one stored block holding data
DeflateStored(data) == <<1>> \o LE16(Len(data)) \o LE16(65535 - Len(data)) \o data

\* two stored blocks: the first byte of data, then the rest of it
DeflateStoredSplit(data) ==
    <<0>> \o LE16(1) \o LE16(65534) \o <<data[1]>> \o DeflateStored(Tail(data))

\* the deflate stream body of data in the framing of format; flg is the
\* second byte of the zlib header
Frame(format, flg, body, data) ==
    IF format = "gzip"
    THEN <<31, 139, 8, 0, 0, 0, 0, 0, 0, 3>> \o body \o Crc32(data) \o LE32(Len(data))
    ELSE IF format = "deflate"
    THEN <<120, flg>> \o body \o Adler32(data)
    ELSE body

\* new CompressionStream(format), fed data and closed
Compress(data, format) == Frame(format, 1, DeflateStored(data), data)

\* The streams the CompressionStream may hand back for data: it is free in
\* how it cuts data into blocks and in the level named by the zlib header.
CompressOutputs(data, format) ==
    {Frame(format, flg, body, data) :
        flg \in {1, 156},
        body \in {DeflateStored(data)} \cup
                 (IF Len(data) >= 2 THEN {DeflateStoredSplit(data)} ELSE {})}

\* "Hello World"
HelloWorld == <<72, 101, 108, 108, 111, 32, 87, 111, 114, 108, 100>>

\* the byte sequences handed to compress
CompressInputs == {<<>>, PayloadHi, HelloWorld}

\* the format argument of compress; when it is left out the format is 'gzip'
CompressFormats == {"gzip", "deflate", "deflate-raw", "undefined"}

FormatOrDefault(format) == IF format = "undefined" THEN "gzip" ELSE format

\* no call has been made in slot c
SlotFree(c) == dcalls[c].pc = "idle" /\ ccalls[c].pc = "idle"

\* The calls take the slots in the order in which they are made; the call in
\* slot c is a decompress call, or a compress call whose result is then
\* handed to decompress.
CompressBegin(c, data, format) ==
    /\ phase = "absent"
    /\ probes = <<>>
    /\ SlotFree(c)
    /\ \A d \in 1..(c - 1) : ~SlotFree(d)
    /\ ccalls' = [ccalls EXCEPT ![c] = [pc |-> "write", data |-> data,
                                        format |-> FormatOrDefault(format),
                                        result |-> <<>>]]
    /\ UNCHANGED <<buffer, index, localFiles, centralDirectories,
                   endOfCentralDirectory, phase, error, console, calls, dcalls, probes, writes, second>>

\* one of the awaits of compress completes; the last one delivers the stream
CompressAwait(c, from, to) ==
    /\ ccalls[c].pc = from
    /\ IF to = "done"
       THEN \E out \in CompressOutputs(ccalls[c].data, ccalls[c].format) :
               ccalls' = [ccalls EXCEPT ![c].pc = "returned", ![c].result = out]
       ELSE ccalls' = [ccalls EXCEPT ![c].pc = to]
    /\ UNCHANGED <<buffer, index, localFiles, centralDirectories,
                   endOfCentralDirectory, phase, error, console, calls, dcalls, probes, writes, second>>

CompressWritten(c) == CompressAwait(c, "write", "close")

CompressClosed(c) == CompressAwait(c, "close", "arrayBuffer")

CompressRead(c) == CompressAwait(c, "arrayBuffer", "done")

\* the byte sequences handed to decompress
DecompressBuffers == {
    <<>>,
    Compress(PayloadHi, "gzip"),
    Compress(PayloadHi, "deflate"),
    Compress(PayloadHi, "deflate-raw"),
    Compress(<<>>, "gzip"),
    Compress(<<>>, "deflate-raw"),
    <<120, 156>> \o DeflateStored(PayloadHi) \o Adler32(PayloadHi),
    <<120, 0, 0, 255, 255>> \o DeflateStored(PayloadHi),
    Take(Compress(PayloadHi, "gzip"), 23) \o <<9>>,
    <<31, 139, 8, 0, 0, 0, 0, 0, 0, 3>> \o DeflateReserved,
    <<31, 139, 8, 0, 0, 0, 0, 0, 0, 3>> \o DeflateHuffmanHi,
    <<31>>,
    <<31, 139>>,
    <<120>>,
    <<120, 156>>,
    <<120, 94>>,
    <<120, 218, 3, 0>>,
    <<31, 139, 0>>,
    <<139, 31, 8>>,
    DeflateHuffmanHi,
    DeflateReserved
}

\* the arguments of the decompress calls
DecompressInputs == {Null} \cup {Bytes(b) : b \in DecompressBuffers}

\* what the call in slot c can be given: one of the inputs, or the result
\* of the compress call made in the slot
DecompressArguments(c) ==
    IF ccalls[c].pc = "idle" THEN DecompressInputs
    ELSE IF ccalls[c].pc = "returned" THEN {Bytes(ccalls[c].result)}
    ELSE {}

\* data[i] of a Uint8Array; past its end it is undefined, which equals no
\* byte and is written -1 here
At(data, i) == IF i < Len(data) THEN data[i + 1] ELSE -1

\* DetectFormat that takes the two-byte magic number for gzip
DetectFormatTwoBytes(data) ==
    IF At(data, 0) = 31 /\ At(data, 1) = 139
    THEN "gzip"
    ELSE IF At(data, 0) = 120 /\ At(data, 1) \in {1, 94, 156, 218}
    THEN "deflate"
    ELSE "deflate-raw"

\* DetectFormat that knows the zlib header of the default level only
DetectFormatDefaultLevel(data) ==
    IF At(data, 0) = 31 /\ At(data, 1) = 139 /\ At(data, 2) = 8
    THEN "gzip"
    ELSE IF At(data, 0) = 120 /\ At(data, 1) = 156
    THEN "deflate"
    ELSE "deflate-raw"

DetectFormat(data) ==
    IF At(data, 0) = 31 /\ At(data, 1) = 139 /\ At(data, 2) = 8
    THEN "gzip"
    ELSE IF At(data, 0) = 120 /\ At(data, 1) \in {1, 94, 156, 218}
    THEN "deflate"
    ELSE "deflate-raw"

\* DecompressBegin that opens the stream before it looks at the input
DecompressBeginStreamFirst(data) ==
    IF data.null \/ Len(data.bytes) = 0
    THEN [IdleDecompress EXCEPT !.pc = "threw", !.data = data, !.error = "EmptyInput",
                                !.streams = 1]
    ELSE [IdleDecompress EXCEPT !.pc = "write", !.data = data,
                                !.format = DetectFormat(data.bytes), !.streams = 1]

\* the call up to its first await
DecompressBegin(data) ==
    IF data.null \/ Len(data.bytes) = 0
    THEN [IdleDecompress EXCEPT !.pc = "threw", !.data = data, !.error = "EmptyInput"]
    ELSE [IdleDecompress EXCEPT !.pc = "write", !.data = data,
                                !.format = DetectFormat(data.bytes), !.streams = 1]

\* DecompressEnd that hands an empty output to the caller
DecompressEndAllowsEmpty(call, result) ==
    LET length == ByteLength(result.out, result.zeros)
    IN IF NumLT(MAX_DECOMPRESSED_SIZE, length)
       THEN [call EXCEPT !.pc = "threw", !.resultLength = length, !.error = "SizeLimit"]
       ELSE [call EXCEPT !.pc = "returned", !.resultLength = length,
                         !.result = result.out, !.zeros = result.zeros]

\* DecompressEnd without the ceiling
DecompressEndUnlimited(call, result) ==
    LET length == ByteLength(result.out, result.zeros)
    IN IF length = Num(0)
       THEN [call EXCEPT !.pc = "threw", !.resultLength = length, !.error = "EmptyOutput"]
       ELSE [call EXCEPT !.pc = "returned", !.resultLength = length,
                         !.result = result.out, !.zeros = result.zeros]

\* The call after response.arrayBuffer() has delivered the decoder's output:
\* resultLength is result.byteLength of the source, result and zeros are the
\* buffer handed to the caller.
DecompressEnd(call, result) ==
    LET length == ByteLength(result.out, result.zeros)
    IN IF length = Num(0)
       THEN [call EXCEPT !.pc = "threw", !.resultLength = length, !.error = "EmptyOutput"]
       ELSE IF NumLT(MAX_DECOMPRESSED_SIZE, length)
       THEN [call EXCEPT !.pc = "threw", !.resultLength = length, !.error = "SizeLimit"]
       ELSE [call EXCEPT !.pc = "returned", !.resultLength = length,
                         !.result = result.out, !.zeros = result.zeros]

Decompress(c, data) ==
    /\ phase = "absent"
    /\ probes = <<>>
    /\ dcalls[c].pc = "idle"
    /\ \A d \in 1..(c - 1) : ~SlotFree(d)
    /\ data \in DecompressArguments(c)
    /\ dcalls' = [dcalls EXCEPT ![c] = DecompressBegin(data)]
    /\ UNCHANGED <<buffer, index, localFiles, centralDirectories,
                   endOfCentralDirectory, phase, error, console, calls, ccalls, probes, writes, second>>

\* DecompressAwait that decodes again as raw deflate when the stream of the
\* detected format rejects
DecompressAwaitFallback(c, from, to) ==
    /\ dcalls[c].pc = from
    /\ \E o \in DecodeOutcomes(dcalls[c].format, dcalls[c].data.bytes) :
          dcalls' = [dcalls EXCEPT ![c] =
                       IF o.status = "error" /\ @.format # "deflate-raw"
                       THEN [@ EXCEPT !.format = "deflate-raw", !.streams = 2]
                       ELSE IF o.status = "error"
                       THEN [@ EXCEPT !.pc = "threw", !.error = "TypeError"]
                       ELSE IF to = "done"
                       THEN DecompressEnd(@, o)
                       ELSE [@ EXCEPT !.pc = to]]
    /\ UNCHANGED <<buffer, index, localFiles, centralDirectories,
                   endOfCentralDirectory, phase, error, console, calls, ccalls, probes, writes, second>>

DecompressAwait(c, from, to) ==
    /\ dcalls[c].pc = from
    /\ \E o \in DecodeOutcomes(dcalls[c].format, dcalls[c].data.bytes) :
          dcalls' = [dcalls EXCEPT ![c] =
                       IF o.status = "error"
                       THEN [@ EXCEPT !.pc = "threw", !.error = "TypeError"]
                       ELSE IF to = "done"
                       THEN DecompressEnd(@, o)
                       ELSE [@ EXCEPT !.pc = to]]
    /\ UNCHANGED <<buffer, index, localFiles, centralDirectories,
                   endOfCentralDirectory, phase, error, console, calls, ccalls, probes, writes, second>>

DecompressWritten(c) == DecompressAwait(c, "write", "close")

DecompressClosed(c) == DecompressAwait(c, "close", "arrayBuffer")

DecompressRead(c) == DecompressAwait(c, "arrayBuffer", "done")

\* ------------------------------------------------------------------------
\* isArrayBufferCompressed(buffer)

\* an argument of isArrayBufferCompressed: undefined, or an ArrayBuffer
NoBuffer == [undefined |-> TRUE, bytes |-> <<>>]
ArrayBufferOf(b) == [undefined |-> FALSE, bytes |-> b]

ProbeInputs ==
    {NoBuffer} \cup
    {ArrayBufferOf(b) : b \in {<<>>, <<31>>, <<139>>, <<31, 139>>, <<31, 139, 8, 0>>,
                               <<0, 0, 0, 0>>, <<139, 31>>, <<31, 140, 8>>, <<30, 139>>,
                               Compress(PayloadHi, "gzip"), Compress(PayloadHi, "deflate")}}

\* isArrayBufferCompressed that looks at the first byte only
isArrayBufferCompressedFirstByte(b) ==
    IF ~b.undefined /\ Len(b.bytes) >= 1
    THEN b.bytes[1] = 31
    ELSE FALSE

isArrayBufferCompressed(b) ==
    IF ~b.undefined /\ Len(b.bytes) >= 2
    THEN LET magicNumber == (b.bytes[1] * 256) + b.bytes[2]
         IN magicNumber = (31 * 256) + 139
    ELSE FALSE

\* a call of isArrayBufferCompressed, made before any stream is opened
IsArrayBufferCompressedCall(b) ==
    /\ phase = "absent"
    /\ \A c \in 1..MaxDecompressCalls : SlotFree(c)
    /\ Len(probes) < MaxProbes
    /\ probes' = Append(probes, [buffer |-> b, result |-> isArrayBufferCompressed(b)])
    /\ UNCHANGED <<buffer, index, localFiles, centralDirectories,
                   endOfCentralDirectory, phase, error, console, calls, dcalls, ccalls,
                   writes, second>>

Next ==
    \/ Read
    \/ \E b \in ProbeInputs : IsArrayBufferCompressedCall(b)
    \/ \E c \in 1..MaxDecompressCalls : \E data \in CompressInputs :
          \E format \in CompressFormats : CompressBegin(c, data, format)
    \/ \E c \in 1..MaxDecompressCalls : CompressWritten(c)
    \/ \E c \in 1..MaxDecompressCalls : CompressClosed(c)
    \/ \E c \in 1..MaxDecompressCalls : CompressRead(c)
    \/ \E c \in 1..MaxDecompressCalls : \E data \in DecompressArguments(c) : Decompress(c, data)
    \/ \E c \in 1..MaxDecompressCalls : DecompressWritten(c)
    \/ \E c \in 1..MaxDecompressCalls : DecompressClosed(c)
    \/ \E c \in 1..MaxDecompressCalls : DecompressRead(c)
    \/ \E c \in 1..MaxCalls : \E e \in 1..Len(localFiles) : Extract(c, e)
    \/ \E c \in 1..MaxCalls : ExtractWritten(c)
    \/ \E c \in 1..MaxCalls : ExtractClosed(c)
    \/ \E c \in 1..MaxCalls : ExtractRead(c)
    \/ \E c \in 1..MaxCalls : \E byte \in WrittenBytes : CallerWrites(c, byte)
    \/ \E b \in SecondBuffers : ConstructSecond(b)
    \/ \E e \in 1..Len(localFiles) : SecondExtract(e)
    \/ SecondExtractWritten
    \/ SecondExtractClosed
    \/ SecondExtractRead

Spec == Init /\ [][Next]_vars

\* ------------------------------------------------------------------------
\* Properties

CallSlots == 1..MaxCalls

Finished(call) == call.pc \in {"returned", "threw"}

EntryOf(call) == localFiles[call.entry]

\* the offset of the local header an entry was read from
HeaderOffset(entry) == entry.startsAt - 30 - entry.fileNameLength - entry.extraLength

\* C1: a successful extract of a stored entry returns exactly
\* uncompressedSize bytes, and they are the bytes of the backing buffer from
\* startsAt on.
C1_StoredExtractIsBufferBytes ==
    \A c \in CallSlots :
        (calls[c].pc = "returned" /\ EntryOf(calls[c]).compressionMethod = 0) =>
            LET entry == EntryOf(calls[c])
                n == Len(calls[c].result)
            IN /\ Num(n) = entry.uncompressedSize
               /\ entry.startsAt + n <= byteLength
               /\ \A i \in 1..n : calls[c].result[i] = buffer[entry.startsAt + i]

C1_Witness ==
    /\ Len(localFiles) = 1
    /\ localFiles[1].fileName = NameA
    /\ localFiles[1].compressionMethod = 0
    /\ \E c \in CallSlots : calls[c].pc = "returned" /\ calls[c].result = PayloadHi

\* C2: a call on an entry that declares more than 500 MiB throws the
\* size-limit error with no slice taken and no stream opened, whatever the
\* method; an entry that declares exactly 500 MiB does not get that error.
C2_CeilingBeforePayload ==
    \A c \in CallSlots :
        calls[c].pc # "idle" =>
            LET entry == EntryOf(calls[c])
            IN /\ NumLT(Num(CeilingBytes), entry.uncompressedSize) =>
                      /\ calls[c].pc = "threw"
                      /\ calls[c].error = "SizeLimit"
                      /\ ~calls[c].sliced
                      /\ ~calls[c].streamOpened
                      /\ calls[c].result = <<>>
               /\ NumLE(entry.uncompressedSize, Num(CeilingBytes)) =>
                      calls[c].error # "SizeLimit"

C2_Witness ==
    \E c \in CallSlots :
        /\ calls[c].pc = "threw"
        /\ calls[c].error = "SizeLimit"
        /\ EntryOf(calls[c]).compressionMethod = 8
        /\ EntryOf(calls[c]).uncompressedSize = Num(CeilingBytes + 1)

\* C3: extract returns bytes only of length uncompressedSize: the slice of a
\* stored entry, the decoded slice of a deflate entry; when the length
\* differs the call throws the size-mismatch error and returns nothing.
C3_LengthChecked ==
    \A c \in CallSlots :
        LET call == calls[c]
            entry == EntryOf(call)
            decoded == InflateBlocks(call.buffer, 1, <<>>)
        IN /\ call.pc = "returned" =>
                 /\ Num(Len(call.result)) = entry.uncompressedSize
                 /\ entry.compressionMethod = 0 => call.result = call.buffer
                 /\ (entry.compressionMethod = 8 /\ decoded.status = "ok") =>
                        call.result = decoded.out
           /\ (Finished(call) /\ call.sliced /\ entry.compressionMethod = 0
                 /\ Num(Len(call.buffer)) # entry.uncompressedSize) =>
                 call.pc = "threw" /\ call.error = "SizeMismatch" /\ call.result = <<>>
           /\ (Finished(call) /\ call.sliced /\ entry.compressionMethod = 8
                 /\ decoded.status = "ok" /\ decoded.next = Len(call.buffer) + 1
                 /\ Num(Len(decoded.out)) # entry.uncompressedSize) =>
                 call.pc = "threw" /\ call.error = "SizeMismatch" /\ call.result = <<>>

C3_Witness ==
    \E c \in CallSlots :
        /\ calls[c].pc = "threw"
        /\ calls[c].error = "SizeMismatch"
        /\ EntryOf(calls[c]).compressionMethod = 8
        /\ EntryOf(calls[c]).uncompressedSize = Num(3)
        /\ calls[c].buffer = DeflateStoredHi

\* C4: a call on an entry within the size ceiling whose method is neither 0
\* nor 8 throws the unsupported-method error and returns nothing.
C4_UnsupportedMethod ==
    \A c \in CallSlots :
        (/\ calls[c].pc # "idle"
         /\ EntryOf(calls[c]).compressionMethod \notin {0, 8}
         /\ NumLE(EntryOf(calls[c]).uncompressedSize, Num(CeilingBytes))) =>
            /\ calls[c].pc = "threw"
            /\ calls[c].error = "Unsupported"
            /\ calls[c].result = <<>>

C4_Witness ==
    \E c \in CallSlots :
        /\ calls[c].pc = "threw"
        /\ calls[c].error = "Unsupported"
        /\ EntryOf(calls[c]).compressionMethod = 9

DecompressSlots == 1..MaxDecompressCalls

\* an extract call holds bytes only once it has returned, and then they have
\* passed every test of extract
ExtractOutcome(call) ==
    /\ call.pc = "returned" =>
           LET entry == EntryOf(call)
           IN /\ call.error = "none"
              /\ NumLE(entry.uncompressedSize, Num(CeilingBytes))
              /\ entry.compressionMethod \in {0, 8}
              /\ Num(Len(call.result)) = entry.uncompressedSize
              /\ entry.compressionMethod = 0 => call.result = call.buffer
              /\ entry.compressionMethod = 8 =>
                     \E o \in DecodeOutcomes("deflate-raw", call.buffer) :
                         o.status = "ok" /\ o.out = call.result /\ o.zeros = Num(0)
    /\ call.pc = "threw" => call.error # "none"
    /\ call.pc # "returned" => call.result = <<>>

\* a decompress call holds bytes only once it has returned; they are the
\* output of the one stream of the detected format and have passed both tests
DecompressOutcome(call) ==
    /\ call.streams <= 1
    /\ call.pc = "returned" =>
           /\ call.error = "none"
           /\ call.streams = 1
           /\ call.format = DetectFormat(call.data.bytes)
           /\ NumLE(Num(1), ByteLength(call.result, call.zeros))
           /\ NumLE(ByteLength(call.result, call.zeros), MAX_DECOMPRESSED_SIZE)
           /\ \E o \in DecodeOutcomes(call.format, call.data.bytes) :
                  o.status = "ok" /\ o.out = call.result /\ o.zeros = call.zeros
    /\ call.pc = "threw" => call.error # "none"
    /\ call.pc # "returned" => (call.result = <<>> /\ call.zeros = Num(0))

\* a finished call stays as it is
CallsAreTerminal ==
    /\ \A c \in CallSlots : Finished(calls[c]) => calls'[c] = calls[c]
    /\ \A c \in DecompressSlots : Finished(dcalls[c]) => dcalls'[c] = dcalls[c]

\* C5: every extract and every decompress call either returns bytes that
\* passed all its tests or throws and returns nothing; a finished call is
\* final, decompress opens one stream only (no second format is tried), and
\* no bytes are surfaced before the call has returned.
C5_ValidatedOrNothing ==
    /\ [](/\ \A c \in CallSlots : ExtractOutcome(calls[c])
          /\ \A c \in DecompressSlots : DecompressOutcome(dcalls[c]))
    /\ [][CallsAreTerminal]_vars

C5_Witness ==
    \E c \in DecompressSlots :
        /\ dcalls[c].pc = "threw"
        /\ dcalls[c].error = "TypeError"
        /\ dcalls[c].format = "gzip"
        /\ dcalls[c].streams = 1
        /\ dcalls[c].data.bytes = <<31, 139, 8, 0, 0, 0, 0, 0, 0, 3>> \o DeflateReserved

\* C6: an unrecognized signature at the cursor makes the construction fail.
C6_UnknownSignatureFails ==
    [][(/\ LoopRuns
        /\ InBounds(Cursor, 4)
        /\ getUint32(Cursor) \notin {LocalFileSignature, CentralDirectorySignature,
                                     EndOfCentralDirectorySignature,
                                     EndOfCentralDirectory64Signature})
       => phase' = "threw"]_vars

\* the bytes the record at the cursor declares: its fixed header and its
\* name, extra field and comment
DeclaredExtent ==
    LET sig == getUint32(Cursor)
    IN IF sig = LocalFileSignature
       THEN IF InBounds(Cursor, 30)
            THEN 30 + getUint16(Cursor + 26) + getUint16(Cursor + 28)
            ELSE 30
       ELSE IF sig = CentralDirectorySignature
       THEN IF InBounds(Cursor, 46)
            THEN 46 + getUint16(Cursor + 28) + getUint16(Cursor + 30)
                    + getUint16(Cursor + 32)
            ELSE 46
       ELSE IF sig = EndOfCentralDirectorySignature
       THEN IF InBounds(Cursor, 22) THEN 22 + getUint16(Cursor + 20) ELSE 22
       ELSE IF sig = EndOfCentralDirectory64Signature
       THEN 56
       ELSE 4

\* C7: when the record at the cursor is cut short by the end of the buffer
\* (its fixed header, or a name, extra field or comment it declares), the
\* construction fails at that record.
C7_TruncationFails ==
    [][(LoopRuns /\ (~InBounds(Cursor, 4) \/ ~InBounds(Cursor, DeclaredExtent)))
       => phase' = "threw"]_vars

\* a buffer that is one end-of-central-directory record and nothing else
OnlyEocd ==
    /\ InBounds(0, 22)
    /\ getUint32(0) = EndOfCentralDirectorySignature
    /\ byteLength = 22 + getUint16(20)

\* C8: over a buffer that is one end-of-central-directory record the
\* construction succeeds and entries is empty.
C8_OnlyEocdIsEmptyArchive ==
    (OnlyEocd /\ phase # "read") =>
        /\ phase = "constructed"
        /\ localFiles = <<>>
        /\ endOfCentralDirectory # Undefined

C8_Witness ==
    /\ buffer = EocdBytes(<<>>)
    /\ phase = "constructed"
    /\ localFiles = <<>>

\* the position in an extra field of its first record with tag 0x0001, the
\* records being walked by their declared lengths; 0 when there is none
RECURSIVE Zip64Record(_, _)
Zip64Record(extra, pos) ==
    IF pos + 3 > Len(extra)
    THEN 0
    ELSE IF extra[pos] + (256 * extra[pos + 1]) = 1
    THEN pos
    ELSE Zip64Record(extra, pos + 4 + extra[pos + 2] + (256 * extra[pos + 3]))

HeaderHasPlaceholders(offset) ==
    getUint32(offset + 18) = Placeholder32 /\ getUint32(offset + 22) = Placeholder32

\* the sizes of an entry whose sizes are not deferred, against its header
SizesFromHeaderOrZip64(entry) ==
    LET offset == HeaderOffset(entry)
        at == Zip64Record(entry.extra, 1)
        data == offset + 30 + entry.fileNameLength + at + 3
    IN IF HeaderHasPlaceholders(offset)
       THEN /\ at > 0
            /\ entry.extra[at + 2] + (256 * entry.extra[at + 3]) >= 16
            /\ entry.uncompressedSize = getBigUint64(data)
            /\ entry.compressedSize = getBigUint64(data + 8)
       ELSE /\ entry.compressedSize = getUint32(offset + 18)
            /\ entry.uncompressedSize = getUint32(offset + 22)

\* a local header at the cursor with both placeholders and an extra field
\* that holds no record with tag 0x0001
PlaceholdersWithoutZip64 ==
    /\ SignatureIs(LocalFileSignature)
    /\ InBounds(Cursor, 30)
    /\ InBounds(Cursor, 30 + getUint16(Cursor + 26) + getUint16(Cursor + 28))
    /\ HeaderHasPlaceholders(Cursor)
    /\ Zip64Record(readString(Cursor + 30 + getUint16(Cursor + 26),
                              getUint16(Cursor + 28)), 1) = 0

DeferredAtCursor ==
    /\ SignatureIs(LocalFileSignature)
    /\ readLocalFile(Cursor).status = "ok"
    /\ hasDataDescriptor(readLocalFile(Cursor).entry)
    /\ getUint32(Cursor + 18) = Num(0)

\* the descriptor signature at p and "PK" 16 bytes after it
DescriptorAt(p) ==
    /\ InBounds(p, 4)
    /\ getUint32(p) = DataDescriptorSignature
    /\ InBounds(p + 16, 2)
    /\ getUint8(p + 16) = 80
    /\ getUint8(p + 17) = 75

\* the smallest member of a non-empty set of offsets
Least(S) == CHOOSE p \in S : \A q \in S : p <= q

\* the step that reads the local header at the cursor takes its descriptor at p
TakesDescriptorAt(p) ==
    /\ phase' = "read"
    /\ Len(localFiles') = Len(localFiles) + 1
    /\ LET entry == localFiles'[Len(localFiles')]
       IN /\ entry.crc = getUint32(p + 4)
          /\ entry.compressedSize = getUint32(p + 8)
          /\ entry.uncompressedSize = getUint32(p + 12)
    /\ index' = Num(p + 16)

\* C10 as claimed: the descriptor taken is the one at the smallest offset
\* p >= startsAt that holds the signature and has "PK" at p + 16.
C10_AsClaimed ==
    [][DeferredAtCursor =>
          LET startsAt == startsAtOf(Cursor, readLocalFile(Cursor).entry)
              S == {p \in startsAt..byteLength : DescriptorAt(p)}
          IN S # {} => TakesDescriptorAt(Least(S))]_vars

\* C10: the descriptor taken is the one at the smallest offset p >= startsAt
\* with p + 20 <= byteLength that holds the signature and has "PK" at p + 16;
\* the entry's crc32, compressedSize and uncompressedSize are the 32-bit
\* values at p + 4, p + 8, p + 12 and the next signature is read at p + 16.
C10_DescriptorScan ==
    [][DeferredAtCursor =>
          LET startsAt == startsAtOf(Cursor, readLocalFile(Cursor).entry)
              S == {p \in startsAt..byteLength : DescriptorAt(p) /\ InBounds(p, 20)}
          IN S # {} => TakesDescriptorAt(Least(S))]_vars

\* a payload that begins with the descriptor signature, passed over for the
\* descriptor 6 bytes further on
C10_Witness ==
    \E i \in 1..Len(localFiles) :
        LET entry == localFiles[i]
        IN /\ hasDataDescriptor(entry)
           /\ getUint32(HeaderOffset(entry) + 18) = Num(0)
           /\ InBounds(entry.startsAt, 26)
           /\ getUint32(entry.startsAt) = DataDescriptorSignature
           /\ ~DescriptorAt(entry.startsAt)
           /\ DescriptorAt(entry.startsAt + 6)
           /\ entry.compressedSize = Num(6)
           /\ entry.compressedSize = getUint32(entry.startsAt + 14)
           /\ \E c \in CallSlots : calls[c].entry = i /\ calls[c].pc = "returned"

\* no offset from startsAt on holds a descriptor signature with "PK" 16 bytes
\* after it
NoDescriptorFrom(startsAt) == \A p \in startsAt..byteLength : ~DescriptorAt(p)

\* a listed entry whose header defers its sizes to a data descriptor
Deferred(entry) ==
    /\ hasDataDescriptor(entry)
    /\ getUint32(HeaderOffset(entry) + 18) = Num(0)

\* C11: when the descriptor scan of a deferred-size entry ends without a
\* signature that satisfies the double condition, construction fails: a reader
\* that was constructed (here without meeting an unknown signature) lists no
\* deferred-size entry behind which no descriptor can be matched.
C11_ScanOffEndFails ==
    (phase = "constructed" /\ console = <<>>) =>
        \A i \in 1..Len(localFiles) :
            Deferred(localFiles[i]) => ~NoDescriptorFrom(localFiles[i].startsAt)

\* the argument of a decompress call is null or holds no byte
EmptyArgument(call) == call.data.null \/ Len(call.data.bytes) = 0

\* C12: a decompress call given null or a zero-length buffer has failed with
\* the "Cannot decompress empty data" error as soon as it has begun, and has
\* opened no decompression stream.
C12_EmptyInputRejected ==
    \A c \in DecompressSlots :
        (dcalls[c].pc # "idle" /\ EmptyArgument(dcalls[c])) =>
            /\ dcalls[c].pc = "threw"
            /\ dcalls[c].error = "EmptyInput"
            /\ dcalls[c].streams = 0
            /\ dcalls[c].result = <<>>

C12_Witness ==
    \E c \in DecompressSlots :
        /\ dcalls[c].data = Null
        /\ dcalls[c].pc = "threw"
        /\ dcalls[c].error = "EmptyInput"
        /\ dcalls[c].streams = 0

\* the leading bytes of data are those of lead
StartsWith(data, lead) == Len(data) >= Len(lead) /\ SubSeq(data, 1, Len(lead)) = lead

\* the format by the magic bytes: 1F 8B 08 is gzip, 78 followed by one of
\* 01, 5E, 9C, DA is zlib-framed deflate, anything else is raw deflate
FormatByMagic(data) ==
    IF StartsWith(data, <<31, 139, 8>>)
    THEN "gzip"
    ELSE IF \E flg \in {1, 94, 156, 218} : StartsWith(data, <<120, flg>>)
    THEN "deflate"
    ELSE "deflate-raw"

\* C13: a decompress call on a non-empty input, of any length from 1 on,
\* decodes with the format its leading bytes select: gzip iff they are
\* 1F 8B 08, else zlib-framed deflate iff they are 78 and one of 01, 5E, 9C,
\* DA, else raw deflate.
C13_FormatByMagic ==
    \A c \in DecompressSlots :
        (dcalls[c].pc # "idle" /\ ~EmptyArgument(dcalls[c])) =>
            dcalls[c].format = FormatByMagic(dcalls[c].data.bytes)

\* the two-byte input 1F 8B is decoded as raw deflate
C13_Witness ==
    \E c \in DecompressSlots :
        /\ dcalls[c].data.bytes = <<31, 139>>
        /\ dcalls[c].format = "deflate-raw"
        /\ dcalls[c].streams = 1

\* the decoder of the format of data accepts data and yields no byte
DecodesToNothing(data) ==
    \A o \in DecodeOutcomes(FormatByMagic(data), data) :
        o.status = "ok" /\ ByteLength(o.out, o.zeros) = Num(0)

\* C14: a decompress call whose decoder yields 0 bytes from a non-empty input
\* ends with the data-loss error, and no decompress call returns an empty
\* buffer.
C14_EmptyOutputRejected ==
    \A c \in DecompressSlots :
        /\ dcalls[c].pc = "returned" =>
               NumLE(Num(1), ByteLength(dcalls[c].result, dcalls[c].zeros))
        /\ (/\ Finished(dcalls[c])
            /\ ~EmptyArgument(dcalls[c])
            /\ DecodesToNothing(dcalls[c].data.bytes))
           => (dcalls[c].pc = "threw" /\ dcalls[c].error = "EmptyOutput")
        /\ dcalls[c].error = "EmptyOutput" =>
               \E o \in DecodeOutcomes(dcalls[c].format, dcalls[c].data.bytes) :
                   o.status = "ok" /\ ByteLength(o.out, o.zeros) = Num(0)

\* the gzip stream of no bytes
C14_Witness ==
    \E c \in DecompressSlots :
        /\ dcalls[c].data.bytes = Compress(<<>>, "gzip")
        /\ dcalls[c].pc = "threw"
        /\ dcalls[c].error = "EmptyOutput"
        /\ dcalls[c].streams = 1

\* 2 GiB, which is 128 * 2^24
TwoGiB == <<128, 0>>

\* the call has taken the decoder's output from response.arrayBuffer()
Decoded(call) == call.streams = 1 /\ Finished(call) /\ call.error # "TypeError"

\* C15: a decompress call whose decoded output is longer than 2 GiB ends
\* with the safety-limit error, and the buffer of a call that returned has
\* between 1 byte and 2 GiB, both included.
C15_OutputCeiling ==
    \A c \in DecompressSlots :
        /\ (Decoded(dcalls[c]) /\ NumLT(TwoGiB, dcalls[c].resultLength))
              => (dcalls[c].pc = "threw" /\ dcalls[c].error = "SizeLimit")
        /\ dcalls[c].pc = "returned" =>
              /\ ByteLength(dcalls[c].result, dcalls[c].zeros) = dcalls[c].resultLength
              /\ NumLE(Num(1), dcalls[c].resultLength)
              /\ NumLE(dcalls[c].resultLength, TwoGiB)
        /\ dcalls[c].error = "SizeLimit" =>
              NumLT(TwoGiB, dcalls[c].resultLength)

\* an output of 2 GiB and one byte
C15_Witness ==
    \E c \in DecompressSlots :
        /\ dcalls[c].pc = "threw"
        /\ dcalls[c].error = "SizeLimit"
        /\ dcalls[c].resultLength = <<128, 1>>
        /\ dcalls[c].result = <<>>

\* slot c holds a finished decompress call on the result of a compress call
RoundTrip(c) ==
    /\ ccalls[c].pc = "returned"
    /\ dcalls[c].data = Bytes(ccalls[c].result)
    /\ Finished(dcalls[c])

HasGzipMagic(b) ==
    /\ ~b.undefined
    /\ Len(b.bytes) >= 2
    /\ Take(b.bytes, 2) = <<31, 139>>

\* C17: isArrayBufferCompressed answers true exactly for a defined buffer of
\* 2 bytes or more that begins with 1F 8B; for undefined, for the empty
\* buffer and for a 1-byte buffer it answers false; every call answers.
C17_GzipMagic ==
    \A i \in 1..Len(probes) :
        /\ probes[i].result \in BOOLEAN
        /\ probes[i].result <=> HasGzipMagic(probes[i].buffer)
        /\ (probes[i].buffer.undefined \/ Len(probes[i].buffer.bytes) < 2)
              => probes[i].result = FALSE

\* the answer is true for 1F 8B 08 00 and false for the single byte 1F
C17_Witness ==
    /\ Len(probes) = 2
    /\ probes[1] = [buffer |-> ArrayBufferOf(<<31, 139, 8, 0>>), result |-> TRUE]
    /\ probes[2] = [buffer |-> ArrayBufferOf(<<31>>), result |-> FALSE]

\* The states of an extract call on entry e that runs with no other call:
\* where it stands after its synchronous part, at its awaits, and how it ends.
AloneRun(e) ==
    LET begin == ExtractBegin(localFiles[e], e)
        atRead == [begin EXCEPT !.pc = "arrayBuffer"]
    IN IF begin.pc # "write"
       THEN {begin}
       ELSE {begin, [begin EXCEPT !.pc = "close"], atRead}
            \cup {IF o.status = "error"
                  THEN [begin EXCEPT !.pc = "threw", !.error = "TypeError"]
                  ELSE ExtractEnd(localFiles[e], atRead, o) :
                     o \in InflateOutcomes(begin.buffer)}

\* a step of call c leaves the reader and every other call as they are
OwnStateOnly ==
    \A c \in CallSlots :
        calls'[c] # calls[c] =>
            /\ \A d \in CallSlots \ {c} : calls'[d] = calls[d]
            /\ UNCHANGED <<buffer, index, localFiles, centralDirectories,
                           endOfCentralDirectory, phase, error, console>>

\* C18: extract calls on one reader, on the same or on different entries,
\* interleaved at their awaits, each stand and end as the call does when it
\* runs alone (the same bytes or the same failure), and a step of a call
\* writes nothing but the call's own state.
C18_CallsIndependent ==
    /\ [](\A c \in CallSlots :
             calls[c].pc # "idle" => calls[c] \in AloneRun(calls[c].entry))
    /\ [][OwnStateOnly]_vars

\* the call made first still waits for its write while the call made after
\* it, on another deflate entry, has ended with a size mismatch
C18_Witness ==
    /\ calls[1].pc = "write"
    /\ calls[1].entry = 1
    /\ calls[1].buffer = DeflateStoredHi
    /\ calls[2].entry = 2
    /\ calls[2].buffer = DeflateStoredEmpty
    /\ calls[2].pc = "threw"
    /\ calls[2].error = "SizeMismatch"

\* entry is what readLocalFile makes of the local file header at offset h
EntryFromHeaderAt(entry, h) ==
    /\ InBounds(h, 30)
    /\ getUint32(h) = LocalFileSignature
    /\ readLocalFile(h).status = "ok"
    /\ HeaderOffset(entry) = h
    /\ entry.fileName = readLocalFile(h).entry.fileName
    /\ entry.extra = readLocalFile(h).entry.extra
    /\ entry.compressionMethod = readLocalFile(h).entry.compressionMethod

\* a step appends one entry exactly when the cursor stands on a local file
\* header that can be read, and that entry is the one of this header
OneEntryPerDispatch ==
    IF SignatureIs(LocalFileSignature) /\ readLocalFile(Cursor).status = "ok"
    THEN /\ Len(localFiles') = Len(localFiles) + 1
         /\ Take(localFiles', Len(localFiles)) = localFiles
         /\ EntryFromHeaderAt(localFiles'[Len(localFiles')], Cursor)
    ELSE localFiles' = localFiles

\* C19: entries holds one entry for each local file header the scan
\* dispatched and no other, in increasing order of header offset; no entry
\* has its header behind a signature that was not recognized.
C19_EntriesInFileOrder ==
    /\ [](/\ \A i \in 1..Len(localFiles) : \A j \in (i + 1)..Len(localFiles) :
                HeaderOffset(localFiles[i]) < HeaderOffset(localFiles[j])
          /\ console # <<>> =>
                \A i \in 1..Len(localFiles) : HeaderOffset(localFiles[i]) < console[1])
    /\ [][OneEntryPerDispatch]_vars

\* two entries are listed in file order; the local file header that follows
\* the unknown signature 50 4B 09 09 is not
C19_Witness ==
    /\ phase = "constructed"
    /\ Len(localFiles) = 2
    /\ HeaderOffset(localFiles[1]) = 0
    /\ HeaderOffset(localFiles[2]) > 0
    /\ console # <<>>
    /\ InBounds(console[1] + 4, 30)
    /\ getUint32(console[1] + 4) = LocalFileSignature
    /\ readLocalFile(console[1] + 4).status = "ok"

\* an end-of-central-directory record of either kind has been parsed
EndParsed == endOfCentralDirectory # Undefined

\* C20: once an end-of-central-directory record or a ZIP64 one has been
\* parsed the scan has stopped with the cursor on that record: what the scan
\* collects never changes again, and every entry listed has its header
\* before the record, whatever bytes follow it.
C20_ScanStopsAtEnd ==
    /\ [](EndParsed =>
             /\ phase = "constructed"
             /\ InBounds(Cursor, 4)
             /\ getUint32(Cursor) \in {EndOfCentralDirectorySignature,
                                       EndOfCentralDirectory64Signature}
             /\ \A i \in 1..Len(localFiles) : HeaderOffset(localFiles[i]) < Cursor)
    /\ [][EndParsed =>
             UNCHANGED <<index, localFiles, centralDirectories,
                         endOfCentralDirectory, console, phase, error>>]_vars

\* a local file record lies behind the parsed end-of-central-directory
\* record, and the entry extracted is one from before it
C20_Witness ==
    /\ EndParsed
    /\ getUint32(Cursor) = EndOfCentralDirectorySignature
    /\ InBounds(Cursor + 22, 30)
    /\ readLocalFile(Cursor + 22).status = "ok"
    /\ getUint32(Cursor + 22) = LocalFileSignature
    /\ Len(localFiles) = 1
    /\ \E c \in CallSlots : calls[c].pc = "returned" /\ calls[c].entry = 1

\* a local file header at the cursor that readLocalFile can read
LocalHeaderAtCursor ==
    SignatureIs(LocalFileSignature) /\ readLocalFile(Cursor).status = "ok"

\* the step that reads the local header at the cursor lists its entry with
\* the payload offset behind the name and the extra field of the header
ListsEntryAtCursor ==
    /\ Len(localFiles') = Len(localFiles) + 1
    /\ localFiles'[Len(localFiles')].startsAt =
           Cursor + 30 + getUint16(Cursor + 26) + getUint16(Cursor + 28)

\* the next signature is read behind the payload of the entry just listed
NextBehindPayload ==
    LET entry == localFiles'[Len(localFiles')]
    IN /\ phase' = "read"
       /\ index' = NumAdd(Num(entry.startsAt), entry.compressedSize)
       /\ entry.compressedSize = readLocalFile(Cursor).entry.compressedSize

\* a central directory record at the cursor that readCentralDirectory can read
CentralRecordAtCursor ==
    SignatureIs(CentralDirectorySignature) /\ readCentralDirectory(Cursor).status = "ok"

NextBehindCentralRecord ==
    /\ phase' = "read"
    /\ index' = Num(Cursor + 46 + getUint16(Cursor + 28) + getUint16(Cursor + 30)
                      + getUint16(Cursor + 32))

\* C21 as claimed: the sizes of a local header count as not deferred when
\* flag bit 3 is clear or the compressedSize field of the header is not 0.
C21_AsClaimed ==
    [][(LocalHeaderAtCursor
          /\ (~hasDataDescriptor(readLocalFile(Cursor).entry)
                \/ getUint32(Cursor + 18) # Num(0)))
         => NextBehindPayload]_vars

\* C21: every entry has startsAt = o + 30 + fileNameLength + extraLength, o
\* being the offset of its local header.  Behind a local header with flag
\* bit 3 clear or with a resolved compressedSize (the one of the ZIP64 record
\* for a header with placeholders) other than 0, the next signature is read
\* at startsAt + compressedSize; behind a central directory record at c it is
\* read at c + 46 + nameLen + extraLen + commentLen.
C21_CursorAdvance ==
    [][/\ LocalHeaderAtCursor => ListsEntryAtCursor
       /\ (LocalHeaderAtCursor
             /\ (~hasDataDescriptor(readLocalFile(Cursor).entry)
                   \/ readLocalFile(Cursor).entry.compressedSize # Num(0)))
            => NextBehindPayload
       /\ CentralRecordAtCursor => NextBehindCentralRecord]_vars

\* a ZIP64 entry (16 bytes of extra field, resolved compressedSize 7) and a
\* central directory record with a 2-byte comment have been passed, and the
\* scan stands on the end-of-central-directory record behind them
C21_Witness ==
    /\ Len(localFiles) = 1
    /\ localFiles[1].extraLength = 20
    /\ localFiles[1].startsAt = 30 + 5 + 20
    /\ localFiles[1].compressedSize = Num(7)
    /\ Len(centralDirectories) = 1
    /\ centralDirectories[1].fileCommentLength = 2
    /\ index = Num(localFiles[1].startsAt + 7 + 46 + 3 + 2)
    /\ EndParsed

\* a step taken once the reader is constructed leaves the reader as it is
ReaderUnchanged ==
    phase = "constructed" =>
        UNCHANGED <<buffer, index, localFiles, centralDirectories,
                    endOfCentralDirectory, phase, error, console>>

\* the bytes the caller now holds in the buffer that call c returned
Held(c) ==
    IF writes[c] = <<>>
    THEN calls[c].result
    ELSE [calls[c].result EXCEPT ![writes[c][1].at + 1] = writes[c][1].byte]

\* C22: once the reader is constructed no step of an extract call, successful
\* or failing, and no write of a caller to a buffer it was returned changes
\* the entries, their fields, the scan cursor or the bytes of the backing
\* buffer; an extract made after such a write returns for the same entry
\* what the earlier call had returned.
C22_ExtractLeavesReader ==
    /\ [][ReaderUnchanged]_vars
    /\ [](\A c \in CallSlots : \A d \in CallSlots :
             (/\ c < d
              /\ writes[c] # <<>>
              /\ calls[d].pc = "returned"
              /\ calls[d].entry = calls[c].entry)
                => calls[d].result = calls[c].result)

\* the caller has overwritten the first byte of the stored payload it was
\* returned, and a later extract of the same entry has returned the payload
C22_Witness ==
    \E c \in CallSlots :
        /\ writes[c] # <<>>
        /\ localFiles[calls[c].entry].compressionMethod = 0
        /\ Held(c) = <<0, 105>>
        /\ calls[c + 1].pc = "returned"
        /\ calls[c + 1].entry = calls[c].entry
        /\ calls[c + 1].result = PayloadHi

\* the fields of the first reader
Fields ==
    [index |-> index, localFiles |-> localFiles,
     centralDirectories |-> centralDirectories,
     endOfCentralDirectory |-> endOfCentralDirectory, phase |-> phase,
     error |-> error, console |-> console]

\* a second reader has been constructed, over a buffer that differs from the
\* one of the first reader in field values of directory records only
OverVariant == second # NoReader /\ second.buffer # buffer

\* how a finished call ended
Ending(call) == [pc |-> call.pc, result |-> call.result, error |-> call.error]

\* the call opened no stream, or one over bytes that are decoded here (the
\* outcome of a stream that is not decoded is left open, call by call)
Determined(call) ==
    call.streamOpened => Cardinality(InflateOutcomes(call.buffer)) = 1

SecondActs == second' # second

\* C26: constructing a second reader, over the same bytes or others, and
\* extracting from it leaves the cursor, the record lists and the buffer of
\* the first reader as they are, and a second reader over the same bytes has
\* the fields of the first: the same entries in the same order with the same
\* field values, the same cursor and the same outcome of the construction.
C26_InstancesIndependent ==
    /\ [][SecondActs =>
             UNCHANGED <<buffer, index, localFiles, centralDirectories,
                         endOfCentralDirectory, phase, error, console, calls>>]_vars
    /\ []((second # NoReader /\ second.buffer = buffer) =>
             /\ entriesOf(second.fields) = localFiles
             /\ second.fields = Fields)

\* two readers over the same bytes list the same two entries, and one entry
\* has been extracted from each of them
C26_Witness ==
    /\ second # NoReader
    /\ second.buffer = buffer
    /\ Len(localFiles) = 2
    /\ Len(entriesOf(second.fields)) = 2
    /\ index # Num(0)
    /\ calls[1].pc = "returned"
    /\ second.call.pc = "returned"

\* the sizes of a listed entry are resolved: for an entry whose sizes are
\* deferred they are the ones of a data descriptor behind its payload, for
\* any other entry those of its header or of its ZIP64 record
SizesResolved(entry) ==
    IF /\ hasDataDescriptor(entry)
       /\ readLocalFile(HeaderOffset(entry)).entry.compressedSize = Num(0)
    THEN \E p \in entry.startsAt..byteLength :
            /\ DescriptorAt(p)
            /\ entry.compressedSize = getUint32(p + 8)
            /\ entry.uncompressedSize = getUint32(p + 12)
    ELSE SizesFromHeaderOrZip64(entry)

\* the call works with the sizes the entry has
SeesSizesOf(call, entry) ==
    /\ call.error = "SizeLimit" <=> NumLT(MAX_INDIVIDUAL_ENTRY_SIZE, entry.uncompressedSize)
    /\ call.sliced =>
          call.buffer = Slice(entry.startsAt,
                              NumAdd(Num(entry.startsAt), entry.compressedSize))
    /\ call.pc = "returned" => Num(Len(call.result)) = entry.uncompressedSize

\* C24: an extract call is made on a constructed reader only, that is after
\* the scan has ended; made as entry.extract() or as reader.extract(entry) it
\* works with the compressedSize and uncompressedSize resolved from the
\* header, the ZIP64 record or the data descriptor, and the two ways of
\* calling end alike.
C24_ResolvedBeforeExtract ==
    /\ \A c \in CallSlots :
          calls[c].pc # "idle" =>
              /\ phase = "constructed"
              /\ SizesResolved(EntryOf(calls[c]))
              /\ SeesSizesOf(calls[c], EntryOf(calls[c]))
    /\ \A c \in CallSlots : \A d \in CallSlots :
          (/\ ViaEntry(c) /\ ~ViaEntry(d)
           /\ Finished(calls[c]) /\ Finished(calls[d])
           /\ calls[c].entry = calls[d].entry
           /\ Determined(calls[c]))
             => Ending(calls[c]) = Ending(calls[d])

\* C25: an extract call on a deflate entry whose slice is not empty never
\* returns an empty buffer, and when the slice decodes to no byte at all the
\* call fails with the data-loss error, whatever uncompressedSize the entry
\* declares.
C25_EmptyOutputOnExtract ==
    \A c \in CallSlots :
        (/\ calls[c].pc # "idle"
         /\ EntryOf(calls[c]).compressionMethod = 8
         /\ calls[c].buffer # <<>>)
          => /\ calls[c].pc = "returned" => calls[c].result # <<>>
             /\ (Finished(calls[c])
                   /\ InflateOutcomes(calls[c].buffer)
                         = {[status |-> "ok", out |-> <<>>, zeros |-> Num(0)]})
                  => calls[c].pc = "threw" /\ calls[c].error = "DataLoss"

\* the larger of two integers
Larger(a, b) == IF a < b THEN b ELSE a

\* an iteration of the loop of read() after which the loop goes on
IterationGoesOn == LoopRuns /\ phase' = "read"

\* the cursor moves on as the kind of record at the cursor requires
CursorMovesOn ==
    /\ NumLT(index, index')
    /\ IF SignatureIs(LocalFileSignature)
       THEN /\ NumLE(NumAdd(index, Num(30)), index')
            /\ LET entry == localFiles'[Len(localFiles')]
               IN (hasDataDescriptor(entry)
                     /\ readLocalFile(Cursor).entry.compressedSize = Num(0))
                    => /\ NumLT(Num(entry.startsAt), index')
                       /\ index'[1] = 0
                       /\ index'[2] - 12 \in
                             entry.startsAt..Larger(entry.startsAt, byteLength - 16)
       ELSE /\ SignatureIs(CentralDirectorySignature)
            /\ NumLE(NumAdd(index, Num(46)), index')

\* C27: every iteration of the scan loop either stops the scan or moves the
\* cursor strictly forward: by at least 30 behind a local header, by at least
\* 46 behind a central directory record, and behind a descriptor scan to 12
\* bytes after the offset where the byte scan ended, which lies between
\* startsAt and the end of the buffer.  So the scan of a finite buffer ends:
\* the records it has passed are never more than the buffer has room for.
C27_ScanTerminates ==
    /\ [][IterationGoesOn => CursorMovesOn]_vars
    /\ [](30 * (Len(localFiles) + Len(centralDirectories)) <= byteLength)

\* a descriptor scan, a local header with its sizes and a central directory
\* record have been passed, and the scan has ended
C27_Witness ==
    /\ phase = "constructed"
    /\ Len(localFiles) = 2
    /\ hasDataDescriptor(localFiles[1])
    /\ getUint32(HeaderOffset(localFiles[1]) + 18) = Num(0)
    /\ ~hasDataDescriptor(localFiles[2])
    /\ Len(centralDirectories) = 1
    /\ EndParsed
    /\ console = <<>>

\* the offsets from startsAt on where the descriptor scan accepts a descriptor
DescriptorsFrom(startsAt) ==
    {p \in startsAt..byteLength : DescriptorAt(p) /\ InBounds(p, 20)}

\* C28: the payload region of a listed entry ends before the local header of
\* the entry listed after it, and the compressedSize an entry got from its
\* data descriptor is not larger than the distance from startsAt to that
\* descriptor.
C28_PayloadsDoNotOverlap ==
    phase # "threw" =>
        \A i \in 1..Len(localFiles) :
            LET entry == localFiles[i]
                end == NumAdd(Num(entry.startsAt), entry.compressedSize)
            IN /\ i < Len(localFiles) =>
                     NumLE(end, Num(HeaderOffset(localFiles[i + 1])))
               /\ (/\ hasDataDescriptor(entry)
                   /\ readLocalFile(HeaderOffset(entry)).entry.compressedSize = Num(0)
                   /\ DescriptorsFrom(entry.startsAt) # {})
                    => NumLE(end, Num(Least(DescriptorsFrom(entry.startsAt))))

\* the declared payload region of the entry ends behind the last byte of the
\* backing buffer
PastEnd(entry) ==
    NumLT(Num(byteLength), NumAdd(Num(entry.startsAt), entry.compressedSize))

\* C29: an extract of a stored entry whose declared region
\* [startsAt, startsAt + compressedSize) extends past the end of the backing
\* buffer fails, whatever uncompressedSize the entry declares: no such call
\* returns.
C29_TruncatedStoredFails ==
    \A c \in CallSlots :
        (/\ Finished(calls[c])
         /\ EntryOf(calls[c]).compressionMethod = 0
         /\ PastEnd(EntryOf(calls[c])))
            => calls[c].pc = "threw"

\* a local header at the cursor with flag bit 3 set and a compressedSize,
\* resolved as readLocalFile resolves it, other than 0
FlaggedWithSize ==
    /\ LocalHeaderAtCursor
    /\ hasDataDescriptor(readLocalFile(Cursor).entry)
    /\ readLocalFile(Cursor).entry.compressedSize # Num(0)

\* the entry is listed with the crc and the sizes readLocalFile gave it: no
\* descriptor was looked for
ListedAsRead ==
    LET entry == localFiles'[Len(localFiles')]
        read == readLocalFile(Cursor).entry
    IN /\ localFiles' = Append(localFiles, entry)
       /\ entry.crc = read.crc
       /\ entry.compressedSize = read.compressedSize
       /\ entry.uncompressedSize = read.uncompressedSize

\* the signature at the cursor is reported and the scan ends where it stands
HaltsAtCursor ==
    /\ phase' = "constructed"
    /\ console' = Append(console, Cursor)
    /\ index' = index
    /\ localFiles' = localFiles
    /\ centralDirectories' = centralDirectories

====
